---- MODULE Spec2Model ----
(***************************************************************************)
(* Model of the ferret daily fraud scanner: DailyFraudScanner (scan,       *)
(* fetch_contracts, analyze_contract, the address index and its caches)    *)
(* in daily_scan.py and ComprehensiveFraudDetector.analyze_contractor in   *)
(* detectors/comprehensive_detector.py.                                    *)
(***************************************************************************)
EXTENDS Integers, Sequences, FiniteSets, TLC

(***************************************************************************)
(* Bounds of the model.                                                    *)
(***************************************************************************)
\* largest `limit` passed to scan/fetch_contracts
MaxBatch == 3
\* contracts per feed page (the code asks for pages of 100)
PageSize == 2
\* cap on page requests of one fetch (the code's loop has no cap of its own)
MaxPages == 3
\* semaphore sizes (the code uses 20 in fast mode and 10 in deep mode)
ConcurrencyFast == 3
ConcurrencyDeep == 2
\* longest raw indicator list explored by the aggregator specification
MaxInds == 4
\* longest collected list explored by the tier specification
MaxTierInds == 3
\* most distinct identifiers of a batch of the index specification
MaxIdxBatch == 4
\* scans one scanner runs after its first in the rescan specification
MaxRescans == 1

(***************************************************************************)
(* External data: the exclusion list, the entity directory and the         *)
(* contract feed as seen through LocalDataStore and USASpendingClient.     *)
(***************************************************************************)
NoUei == ""
Ueis == {"U1", "U2", "U3", "U4"}
Names == {"N1", "N2", "N3"}

\* the clock, in days; registration dates are day numbers, NoDate is a
\* missing registration_date and BadDate one that strptime rejects
Now == 1000
NoDate == -1
BadDate == -2
\* check_registration_age returning None
NoneAge == -1

\* LocalDataStore.check_exclusion(uei=...): exact match on "Unique Entity ID"
ExcludedUeis == {"U1", "U3"}
\* LocalDataStore.check_exclusion(name=...): the names that are a substring,
\* case folded, of the Name of some record of the exclusion file
ExcludedNames == {"N1", "N2"}

\* the {} that _get_entity_cached stores when the directory has no record
EmptyEntity ==
    [present |-> FALSE, legal_name |-> "", registration_date |-> NoDate,
     address |-> <<>>, state |-> ""]

\* LocalDataStore.get_entity_by_uei; addresses are character sequences
EntityIndex(uei) ==
    CASE uei = "U1" -> [present |-> TRUE, legal_name |-> "N1",
                        registration_date |-> Now - 30,
                        address |-> <<"M", "#">>, state |-> "S1"]
      [] uei = "U2" -> [present |-> TRUE, legal_name |-> "N2",
                        registration_date |-> Now - 120,
                        address |-> <<"m", "#", " ">>, state |-> "S1"]
      [] uei = "U3" -> [present |-> TRUE, legal_name |-> "N3",
                        registration_date |-> BadDate,
                        address |-> <<"m", ",", "#">>, state |-> "S2"]
      [] uei = "U5" -> [present |-> TRUE, legal_name |-> "N5",
                        registration_date |-> NoDate,
                        address |-> <<>>, state |-> "S1"]
      [] uei = "U6" -> [present |-> TRUE, legal_name |-> "N6",
                        registration_date |-> NoDate,
                        address |-> <<" ", "m", "#">>, state |-> "S1"]
      [] OTHER -> EmptyEntity

\* states whose cohort lookup (LocalDataStore.search_entities) fails
FailingStates == {"S2"}

Contract(id, uei, name, value) ==
    [contract_id |-> id, recipient_uei |-> uei, recipient_name |-> name,
     total_obligation |-> value]

\* the contracts the feed can return
Pool ==
    { Contract("C1", "U1", "N1", 1000000),
      Contract("C2", "U1", "N2", 600000),
      Contract("C3", "U2", "N3", 600000),
      Contract("C4", "U3", "N3", 1000000),
      Contract("C5", "U4", "N3", 400000),
      Contract("C6", NoUei, "N1", 1000000),
      Contract("C7", "U2", "N2", 400000),
      Contract("C8", "U3", "N2", 400000) }

Severities == {"CRITICAL", "HIGH", "MEDIUM", "LOW"}

(***************************************************************************)
(* Helpers on sequences.                                                   *)
(***************************************************************************)
Min(a, b) == IF a <= b THEN a ELSE b

RECURSIVE SeqSum(_)
SeqSum(s) == IF s = <<>> THEN 0 ELSE Head(s) + SeqSum(Tail(s))

Range(s) == {s[i] : i \in DOMAIN s}

\* s[:n]
Take(s, n) == SubSeq(s, 1, Min(n, Len(s)))

(***************************************************************************)
(* String operations on addresses (sequences of characters).               *)
(***************************************************************************)
LowerChar(c) == IF c = "M" THEN "m" ELSE c
UpperChar(c) == IF c = "m" THEN "M" ELSE c

\* str.lower()
Lower(s) == [i \in DOMAIN s |-> LowerChar(s[i])]
\* str.upper()
Upper(s) == [i \in DOMAIN s |-> UpperChar(s[i])]

RECURSIVE LStrip(_)
LStrip(s) == IF s # <<>> /\ Head(s) = " " THEN LStrip(Tail(s)) ELSE s

RECURSIVE RStrip(_)
RStrip(s) ==
    IF s # <<>> /\ s[Len(s)] = " " THEN RStrip(SubSeq(s, 1, Len(s) - 1)) ELSE s

\* str.strip()
Strip(s) == LStrip(RStrip(s))

\* the character classes \w and \s of the address alphabet
IsWordChar(c) == c \in {"M", "m"}
IsSpaceChar(c) == c = " "

\* re.sub(r'[^\w\s]', ' ', addr)
PunctuationToSpace(s) ==
    [i \in DOMAIN s |-> IF IsWordChar(s[i]) \/ IsSpaceChar(s[i]) THEN s[i] ELSE " "]

RECURSIVE CollapseSpaces(_)
\* re.sub(r'\s+', ' ', addr)
CollapseSpaces(s) ==
    IF Len(s) < 2 THEN s
    ELSE IF IsSpaceChar(s[1]) /\ IsSpaceChar(s[2])
         THEN CollapseSpaces(Tail(s))
         ELSE <<s[1]>> \o CollapseSpaces(Tail(s))

\* detectors.address.normalize_address
NormalizeAddress(address) ==
    IF address = <<>> THEN <<>>
    ELSE Strip(CollapseSpaces(PunctuationToSpace(Lower(address))))

\* address.lower().strip(), the key of the address index
AddrKey(address) == Strip(Lower(address))

(***************************************************************************)
(* Entity cache, address index and the fast checks of DailyFraudScanner.   *)
(* Caches are functions whose domain is the set of cached identifiers; an  *)
(* operator that fills a cache returns the new cache.                      *)
(***************************************************************************)
EmptyMap == [x \in {} |-> 0]

\* _get_entity_cached: the cache after the call; the entity is its [uei]
GetEntityCached(ecache, uei) ==
    IF uei \in DOMAIN ecache THEN ecache
    ELSE ecache @@ (uei :> EntityIndex(uei))

\* faulty variant: a record with an empty address is indexed too
IndexAddAnyAddress(index, uei, entity) ==
    IF entity.present
    THEN LET k == AddrKey(entity.address)
             old == IF k \in DOMAIN index THEN index[k] ELSE EmptyMap
             n == IF uei \in DOMAIN old THEN old[uei] ELSE 0
             new == [u \in DOMAIN old \cup {uei} |->
                        IF u = uei THEN n + 1 ELSE old[u]]
         IN [x \in DOMAIN index \cup {k} |-> IF x = k THEN new ELSE index[x]]
    ELSE index

\* one iteration of the indexing loop: append uei to the list of its address
\* key. A list is kept as its multiset (identifier -> occurrences), since
\* the iteration order of the identifier set is not fixed.
IndexAdd(index, uei, entity) ==
    IF entity.present /\ entity.address # <<>>
    THEN LET k == AddrKey(entity.address)
             old == IF k \in DOMAIN index THEN index[k] ELSE EmptyMap
             n == IF uei \in DOMAIN old THEN old[uei] ELSE 0
             new == [u \in DOMAIN old \cup {uei} |->
                        IF u = uei THEN n + 1 ELSE old[u]]
         IN [x \in DOMAIN index \cup {k} |-> IF x = k THEN new ELSE index[x]]
    ELSE index

RECURSIVE IndexLoop(_, _, _)
\* the loop over the distinct identifiers of the batch; yields the entity
\* cache and the index after it
IndexLoop(todo, ecache, index) ==
    IF todo = {} THEN [ecache |-> ecache, index |-> index]
    ELSE LET uei == CHOOSE u \in todo : TRUE
             ec == GetEntityCached(ecache, uei)
         IN IndexLoop(todo \ {uei}, ec, IndexAdd(index, uei, ec[uei]))

\* faulty variant: the build runs again although the index is built
BuildAddressIndexNoGuard(batch, ecache, index, built) ==
    LET ueis == {batch[i].recipient_uei : i \in DOMAIN batch} \ {NoUei}
        r == IndexLoop(ueis, ecache, index)
    IN [ecache |-> r.ecache, index |-> r.index, built |-> TRUE]

\* faulty variant: the build is left out
BuildAddressIndexSkipped(batch, ecache, index, built) ==
    [ecache |-> ecache, index |-> index, built |-> built]

\* _build_address_index
BuildAddressIndex(batch, ecache, index, built) ==
    IF built THEN [ecache |-> ecache, index |-> index, built |-> TRUE]
    ELSE LET ueis == {batch[i].recipient_uei : i \in DOMAIN batch} \ {NoUei}
             r == IndexLoop(ueis, ecache, index)
         IN [ecache |-> r.ecache, index |-> r.index, built |-> TRUE]

RECURSIVE BagSize(_)
\* len() of an index list kept as a multiset
BagSize(bag) ==
    IF DOMAIN bag = {} THEN 0
    ELSE LET u == CHOOSE x \in DOMAIN bag : TRUE
         IN bag[u] + BagSize([x \in DOMAIN bag \ {u} |-> bag[x]])

\* faulty variant: the count includes the identifier itself
SharedCountWithSelf(index, uei, entity) ==
    IF ~entity.present THEN 0
    ELSE IF entity.address = <<>> THEN 0
    ELSE LET k == AddrKey(entity.address)
         IN IF k \in DOMAIN index THEN BagSize(index[k]) ELSE 0

\* the value check_shared_address computes on a cache miss
SharedCount(index, uei, entity) ==
    IF ~entity.present THEN 0
    ELSE IF entity.address = <<>> THEN 0
    ELSE LET k == AddrKey(entity.address)
         IN IF k \in DOMAIN index
            THEN BagSize([u \in DOMAIN index[k] \ {uei} |-> index[k][u]])
            ELSE 0

\* faulty variant: a memoized identifier gets the count 0
CheckSharedAddressHitZero(ecache, sacache, index, uei) ==
    IF uei \in DOMAIN sacache
    THEN [count |-> 0, ecache |-> ecache, sacache |-> sacache]
    ELSE LET ec == GetEntityCached(ecache, uei)
             n == SharedCount(index, uei, ec[uei])
         IN [count |-> n, ecache |-> ec, sacache |-> sacache @@ (uei :> n)]

\* check_shared_address: the count and both caches after the call
CheckSharedAddress(ecache, sacache, index, uei) ==
    IF uei \in DOMAIN sacache
    THEN [count |-> sacache[uei], ecache |-> ecache, sacache |-> sacache]
    ELSE LET ec == GetEntityCached(ecache, uei)
             n == SharedCount(index, uei, ec[uei])
         IN [count |-> n, ecache |-> ec, sacache |-> sacache @@ (uei :> n)]

\* check_registration_age on the cached entity
CheckRegistrationAge(entity) ==
    IF ~entity.present THEN NoneAge
    ELSE IF entity.registration_date = NoDate THEN NoneAge
    ELSE IF entity.registration_date = BadDate THEN NoneAge
    ELSE Now - entity.registration_date

\* check_virtual_office on the cached entity ("#" is the one indicator the
\* address alphabet can spell)
CheckVirtualOffice(entity) ==
    entity.present /\ \E i \in DOMAIN entity.address : Upper(entity.address)[i] = "#"

\* check_exclusion(uei).is_excluded
CheckExclusion(uei) == uei \in ExcludedUeis

Flag(sev, pat) == [severity |-> sev, pattern |-> pat]

\* steps 1-4 of analyze_contract for a contract with an identifier: the flag
\* list, fraud_patterns and the caches after the fast checks
FastChecks(contract, ecache, sacache, index) ==
    LET uei == contract.recipient_uei
        excl == CheckExclusion(uei)
        ec == GetEntityCached(ecache, uei)
        age == CheckRegistrationAge(ec[uei])
        virt == CheckVirtualOffice(ec[uei])
        sh == CheckSharedAddress(ec, sacache, index, uei)
        rapidHigh == age # NoneAge /\ age < 90 /\ contract.total_obligation >= 1000000
        rapidMed == ~rapidHigh /\ age # NoneAge /\ age < 180
                        /\ contract.total_obligation >= 500000
        f1 == IF excl THEN <<Flag("CRITICAL", "EXCLUDED_ACTIVE_CONTRACT")>> ELSE <<>>
        f2 == IF rapidHigh THEN <<Flag("HIGH", "RAPID_REGISTRATION_LARGE_AWARD")>>
              ELSE IF rapidMed THEN <<Flag("MEDIUM", "RAPID_REGISTRATION_LARGE_AWARD")>>
              ELSE <<>>
        f3 == IF virt THEN <<Flag("LOW", "VIRTUAL_OFFICE_INDICATORS")>> ELSE <<>>
        f4 == IF sh.count >= 5 THEN <<Flag("HIGH", "ADDRESS_CLUSTER_CONTRACTS")>>
              ELSE IF sh.count >= 3 THEN <<Flag("MEDIUM", "ADDRESS_CLUSTER_CONTRACTS")>>
              ELSE <<>>
        p1 == IF excl THEN <<"EXCLUDED_ACTIVE_CONTRACT">> ELSE <<>>
        p2 == IF rapidHigh THEN <<"RAPID_REGISTRATION_LARGE_AWARD">> ELSE <<>>
        p4 == IF sh.count >= 5 THEN <<"ADDRESS_CLUSTER_CONTRACTS">> ELSE <<>>
    IN [flags |-> f1 \o f2 \o f3 \o f4,
        fraud_patterns |-> p1 \o p2 \o p4,
        exclusion_match |-> excl,
        registration_age_days |-> age,
        virtual_office |-> virt,
        shared_address_count |-> sh.count,
        ecache |-> sh.ecache,
        sacache |-> sh.sacache]

(***************************************************************************)
(* ComprehensiveFraudDetector.analyze_contractor.  The detector families   *)
(* are tables of the raw indicators they emit for the data above.          *)
(***************************************************************************)
Ind(c, p, s, n) == [category |-> c, pattern_type |-> p, severity |-> s, score |-> n]

\* what search_contracts(recipient_name=name, limit=50) returns for the
\* history lookup: a contract history, or "error" when the request fails
FeedHistory(name) ==
    CASE name = "N1" -> "H1"
      [] name = "N2" -> "H2"
      [] OTHER -> "error"

\* _get_contractor_contracts: a failed request yields the empty list
GetContractorContracts(name) ==
    IF FeedHistory(name) = "error" THEN "none" ELSE FeedHistory(name)

\* indicators of the pricing, temporal and competition detectors for a
\* history, in emission order; the modification detector finds nothing in
\* the Contract objects of the feed, which have neither modification_count
\* nor base_exercised_options_value
ContractFindings(hist, uei) ==
    CASE hist = "H1" ->
            << Ind("PRICING", "CONTRACT_SPLITTING", "HIGH", 20),
               Ind("PRICING", "THRESHOLD_PROXIMITY", "MEDIUM", 10),
               Ind("PRICING", "CONTRACT_SPLITTING", "HIGH", 20),
               Ind("TEMPORAL", "FISCAL_YEAR_END_RUSH", "LOW", 5),
               Ind("COMPETITION", "SOLE_SOURCE_CONCENTRATION", "HIGH", 15),
               Ind("PRICING", "PRICE_OUTLIER_HIGH", "HIGH", 15) >>
      [] hist = "H2" ->
            << Ind("COMPETITION", "SINGLE_OFFER_COMPETITIVE", "MEDIUM", 10),
               Ind("PRICING", "PRICE_OUTLIER_LOW", "MEDIUM", 10),
               Ind("COMPETITION", "SINGLE_OFFER_COMPETITIVE", "MEDIUM", 10) >>
      [] OTHER -> <<>>

\* indicators of the registration, address and employee detectors
EntityFindings(uei) ==
    CASE uei = "U1" -> << Ind("ENTITY", "RAPID_FIRST_AWARD", "HIGH", 15),
                          Ind("ENTITY", "SHARED_ADDRESS", "MEDIUM", 10) >>
      [] uei = "U2" -> << Ind("ENTITY", "SHARED_ADDRESS", "MEDIUM", 10) >>
      [] OTHER -> <<>>

\* indicators of detect_shell_network over the cohort
NetworkFindings(uei) ==
    IF uei \in {"U1", "U2"}
    THEN << Ind("SHELL_COMPANY", "SHARED_ADDRESS", "MEDIUM", 10) >>
    ELSE <<>>

\* the exclusion file LocalDataStore reads: the names for which
\* search_exclusions(name=...) returns a record
VARIABLE exclusion_names

\* check_exclusion(name=legal_name).is_excluded
NameExcluded(name) == name \in exclusion_names

\* faulty variant: the name match is reported next to the exact match
DetectExclusionsBoth(uei, legal_name) ==
    (IF CheckExclusion(uei)
     THEN << Ind("EXCLUSION", "EXCLUDED_ENTITY", "CRITICAL", 30) >>
     ELSE <<>>)
    \o
    (IF NameExcluded(legal_name)
     THEN << Ind("EXCLUSION", "EXCLUDED_ENTITY_NAME_MATCH", "HIGH", 25) >>
     ELSE <<>>)

\* detect_exclusions
DetectExclusions(uei, legal_name) ==
    (IF CheckExclusion(uei)
     THEN << Ind("EXCLUSION", "EXCLUDED_ENTITY", "CRITICAL", 30) >>
     ELSE <<>>)
    \o
    (IF NameExcluded(legal_name) /\ ~CheckExclusion(uei)
     THEN << Ind("EXCLUSION", "EXCLUDED_ENTITY_NAME_MATCH", "HIGH", 25) >>
     ELSE <<>>)

\* faulty variant: the key leaves out the category
DedupKeyPatternOnly(i) == i.pattern_type

\* the key the deduplication loop remembers
DedupKey(i) == <<i.category, i.pattern_type>>

RECURSIVE DedupLoop(_, _, _)
DedupLoop(rest, seen, unique) ==
    IF rest = <<>> THEN unique
    ELSE LET i == Head(rest)
         IN IF DedupKey(i) \in seen
            THEN DedupLoop(Tail(rest), seen, unique)
            ELSE DedupLoop(Tail(rest), seen \cup {DedupKey(i)}, Append(unique, i))

\* faulty variant: a later indicator of a pair replaces the earlier one
DedupKeepLast(all) ==
    LET keep == {k \in DOMAIN all :
                    \A j \in (k + 1)..Len(all) :
                        <<all[j].category, all[j].pattern_type>> #
                        <<all[k].category, all[k].pattern_type>>}
        nth(n) == CHOOSE q \in keep : Cardinality({r \in keep : r < q}) = n - 1
    IN [n \in 1..Cardinality(keep) |-> all[nth(n)]]

\* the deduplication loop of analyze_contractor
Dedup(all) == DedupLoop(all, {}, <<>>)

\* faulty variant: the sum without the cap at 100
TotalScoreUncapped(inds) == SeqSum([k \in DOMAIN inds |-> inds[k].score])

\* total_score
TotalScore(inds) == Min(100, SeqSum([k \in DOMAIN inds |-> inds[k].score]))

\* faulty variant: each indicator overwrites the score of its category
CategoryScoresOverwrite(inds) ==
    [c \in {inds[k].category : k \in DOMAIN inds} |->
        LET last == CHOOSE k \in DOMAIN inds :
                        /\ inds[k].category = c
                        /\ \A j \in DOMAIN inds : inds[j].category = c => j <= k
        IN inds[last].score]

\* category_scores: a dict over the categories that occur
CategoryScores(inds) ==
    [c \in {inds[k].category : k \in DOMAIN inds} |->
        SeqSum([k \in DOMAIN inds |->
                  IF inds[k].category = c THEN inds[k].score ELSE 0])]

\* faulty variant: a HIGH indicator does not lower the bar of the HIGH tier
RiskLevelIgnoresHigh(inds, total) ==
    LET has_critical == \E k \in DOMAIN inds : inds[k].severity = "CRITICAL"
    IN IF has_critical \/ total >= 50 THEN "CRITICAL"
       ELSE IF total >= 35 THEN "HIGH"
       ELSE IF total >= 20 THEN "MEDIUM"
       ELSE IF total > 0 THEN "LOW"
       ELSE "NONE"

\* risk_level
RiskLevel(inds, total) ==
    LET has_critical == \E k \in DOMAIN inds : inds[k].severity = "CRITICAL"
        has_high == \E k \in DOMAIN inds : inds[k].severity = "HIGH"
    IN IF has_critical \/ total >= 50 THEN "CRITICAL"
       ELSE IF total >= 35 \/ (has_high /\ total >= 25) THEN "HIGH"
       ELSE IF total >= 20 THEN "MEDIUM"
       ELSE IF total > 0 THEN "LOW"
       ELSE "NONE"

\* the tail of analyze_contractor: from the collected list to the profile
BuildProfile(uei, legal_name, all) ==
    LET inds == Dedup(all)
        total == TotalScore(inds)
    IN [uei |-> uei, legal_name |-> legal_name, indicators |-> inds,
        total_score |-> total, risk_level |-> RiskLevel(inds, total),
        category_scores |-> CategoryScores(inds)]

\* the list analyze_contractor collects before deduplication
CollectIndicators(uei, hist) ==
    LET entity == EntityIndex(uei)
        legal_name == IF entity.present THEN entity.legal_name ELSE "Unknown"
        cohort == entity.present /\ entity.state # ""
    IN DetectExclusions(uei, legal_name)
       \o (IF hist # "none" THEN ContractFindings(hist, uei) ELSE <<>>)
       \o (IF entity.present THEN EntityFindings(uei) ELSE <<>>)
       \o (IF entity.present /\ cohort THEN NetworkFindings(uei) ELSE <<>>)

\* analyze_contractor(uei, contracts, include_network_analysis=True): it
\* raises when the cohort lookup fails, and returns the profile otherwise
AnalyzeContractor(uei, hist) ==
    LET entity == EntityIndex(uei)
        legal_name == IF entity.present THEN entity.legal_name ELSE "Unknown"
    IN IF entity.present /\ entity.state \in FailingStates
       THEN [raised |-> TRUE]
       ELSE [raised |-> FALSE,
             risk_profile |-> BuildProfile(uei, legal_name, CollectIndicators(uei, hist))]

(***************************************************************************)
(* Step 5 and the scoring tail of DailyFraudScanner.analyze_contract.      *)
(***************************************************************************)
\* the _contractor_cache value stored when deep analysis failed (None)
NoneEntry == [is_none |-> TRUE]
CacheEntry(profile, hist) ==
    [is_none |-> FALSE, risk_profile |-> profile, contracts |-> hist]

RECURSIVE MergeLoopNoSkip(_, _, _, _)
\* faulty variant: the merge loop without `if indicator.pattern_type in
\* fraud_patterns: continue`
MergeLoopNoSkip(inds, flags, patterns, details) ==
    IF inds = <<>>
    THEN [flags |-> flags, fraud_patterns |-> patterns, indicator_details |-> details]
    ELSE LET i == Head(inds)
         IN MergeLoopNoSkip(Tail(inds),
                            Append(flags, Flag(i.severity, i.pattern_type)),
                            Append(patterns, i.pattern_type),
                            Append(details, i))

RECURSIVE MergeLoop(_, _, _, _)
\* the loop that adds the profile's indicators to the flag list
MergeLoop(inds, flags, patterns, details) ==
    IF inds = <<>>
    THEN [flags |-> flags, fraud_patterns |-> patterns, indicator_details |-> details]
    ELSE LET i == Head(inds)
         IN IF i.pattern_type \in Range(patterns)
            THEN MergeLoop(Tail(inds), flags, patterns, details)
            ELSE MergeLoop(Tail(inds),
                           Append(flags, Flag(i.severity, i.pattern_type)),
                           Append(patterns, i.pattern_type),
                           Append(details, i))

\* faulty variant: a failed deep analysis discards the fast-check flags
MergeCachedDropsFast(entry, flags, patterns) ==
    IF entry.is_none
    THEN [flags |-> <<>>, fraud_patterns |-> <<>>,
          indicator_details |-> <<>>, category_scores |-> EmptyMap]
    ELSE LET m == MergeLoop(entry.risk_profile.indicators, flags, patterns, <<>>)
         IN [flags |-> m.flags, fraud_patterns |-> m.fraud_patterns,
             indicator_details |-> m.indicator_details,
             category_scores |-> entry.risk_profile.category_scores]

\* `cached = self._contractor_cache.get(uei)` and the merge under it
MergeCached(entry, flags, patterns) ==
    IF entry.is_none
    THEN [flags |-> flags, fraud_patterns |-> patterns,
          indicator_details |-> <<>>, category_scores |-> EmptyMap]
    ELSE LET m == MergeLoop(entry.risk_profile.indicators, flags, patterns, <<>>)
         IN [flags |-> m.flags, fraud_patterns |-> m.fraud_patterns,
             indicator_details |-> m.indicator_details,
             category_scores |-> entry.risk_profile.category_scores]

\* severity_scores.get(severity, 0)
SeverityScore(sev) ==
    CASE sev = "CRITICAL" -> 25
      [] sev = "HIGH" -> 15
      [] sev = "MEDIUM" -> 10
      [] sev = "LOW" -> 5
      [] OTHER -> 0

\* faulty variant: the sum without the cap at 100
RiskScoreUncapped(flags) ==
    SeqSum([k \in DOMAIN flags |-> SeverityScore(flags[k].severity)])

\* risk_score
RiskScore(flags) ==
    Min(SeqSum([k \in DOMAIN flags |-> SeverityScore(flags[k].severity)]), 100)

\* faulty variant: the tier by score alone, without the exclusion match
AlertLevelByScoreOnly(risk_score, exclusion_match) ==
    IF risk_score >= 50 THEN "CRITICAL"
    ELSE IF risk_score >= 30 THEN "HIGH"
    ELSE IF risk_score >= 15 THEN "MEDIUM"
    ELSE IF risk_score > 0 THEN "LOW"
    ELSE "NONE"

\* risk_level, "NONE" standing for the `return None` branch
AlertLevel(risk_score, exclusion_match) ==
    IF risk_score >= 50 \/ exclusion_match THEN "CRITICAL"
    ELSE IF risk_score >= 30 THEN "HIGH"
    ELSE IF risk_score >= 15 THEN "MEDIUM"
    ELSE IF risk_score > 0 THEN "LOW"
    ELSE "NONE"

NoAlert == [is_none |-> TRUE]

\* the value analyze_contract returns, from its locals
MakeAlert(contract, fast, merged) ==
    LET risk_score == RiskScore(merged.flags)
        risk_level == AlertLevel(risk_score, fast.exclusion_match)
    IN IF risk_level = "NONE" THEN NoAlert
       ELSE [is_none |-> FALSE,
             contract_id |-> contract.contract_id,
             recipient_name |-> contract.recipient_name,
             recipient_uei |-> contract.recipient_uei,
             contract_value |-> contract.total_obligation,
             risk_score |-> risk_score,
             risk_level |-> risk_level,
             fraud_patterns |-> merged.fraud_patterns,
             flags |-> merged.flags,
             exclusion_match |-> fast.exclusion_match,
             registration_age_days |-> fast.registration_age_days,
             virtual_office |-> fast.virtual_office,
             shared_address_count |-> fast.shared_address_count,
             category_scores |-> merged.category_scores,
             indicator_details |-> merged.indicator_details]

\* the flag list and patterns with no deep findings merged
NoDeep(fast) ==
    [flags |-> fast.flags, fraud_patterns |-> fast.fraud_patterns,
     indicator_details |-> <<>>, category_scores |-> EmptyMap]

(***************************************************************************)
(* The tail of DailyFraudScanner.scan: filter by tier, sort by score.      *)
(***************************************************************************)
\* threshold_levels.index
LevelIndex(level) ==
    CASE level = "LOW" -> 0
      [] level = "MEDIUM" -> 1
      [] level = "HIGH" -> 2
      [] level = "CRITICAL" -> 3

ThresholdLevels == {"LOW", "MEDIUM", "HIGH", "CRITICAL"}

\* the test of the list comprehension that filters the results
KeepAlert(r, threshold_idx) ==
    ~r.is_none /\ LevelIndex(r.risk_level) >= threshold_idx

RECURSIVE FilterAlerts(_, _)
FilterAlerts(results, threshold_idx) ==
    IF results = <<>> THEN <<>>
    ELSE (IF KeepAlert(Head(results), threshold_idx) THEN <<Head(results)>> ELSE <<>>)
         \o FilterAlerts(Tail(results), threshold_idx)

\* faulty variant: the sort without reverse=True
SortsAscending(a, b) == a.risk_score < b.risk_score

\* the comparison behind sort(key=risk_score, reverse=True): a goes before b
SortsBefore(a, b) == a.risk_score > b.risk_score

RECURSIVE InsertAlert(_, _)
\* insert a after every element it does not sort before (stable)
InsertAlert(sorted, a) ==
    IF sorted = <<>> THEN <<a>>
    ELSE IF SortsBefore(a, Head(sorted)) THEN <<a>> \o sorted
    ELSE <<Head(sorted)>> \o InsertAlert(Tail(sorted), a)

RECURSIVE SortAlerts(_)
\* alerts.sort(key=lambda x: x.risk_score, reverse=True), a stable sort
SortAlerts(alerts) ==
    IF alerts = <<>> THEN <<>>
    ELSE InsertAlert(SortAlerts(SubSeq(alerts, 1, Len(alerts) - 1)), alerts[Len(alerts)])

(***************************************************************************)
(* State of one DailyFraudScanner and of the scan it runs.                 *)
(***************************************************************************)
VARIABLES
    deep_analysis,          \* constructor argument
    pc,                     \* position of scan: idle, fetching, analyzing,
                            \* returned, raised
    threshold, limit,       \* arguments of scan
    page, all_contracts,    \* locals of fetch_contracts
    contracts,              \* the fetched batch
    total_scanned,
    entity_cache,           \* _entity_cache
    shared_address_cache,   \* _shared_address_cache
    address_index,          \* _address_index
    address_index_built,    \* _address_index_built
    contractor_cache,       \* _contractor_cache
    semaphore,              \* free slots of the asyncio.Semaphore
    task,                   \* per contract: ready, blocked, awaiting, done
    local,                  \* per contract: the locals of analyze_contract
    results,                \* per contract: what analyze_contract returned
    alerts,                 \* the list scan returns
    history_calls,          \* per identifier: _get_contractor_contracts calls
    analyze_calls,          \* per identifier: analyze_contractor calls
    deep_failed,            \* identifiers whose deep analysis raised
    feed_failed,            \* a page request got an error response or raised
    agg_raw,                \* aggregator specification: the collected list
    agg_profile,            \* aggregator specification: the profile built
    earlier_scans,          \* scans this scanner has returned from before
    prev_contracts,         \* while fetching: the batch of the scan before
    same_batch,             \* the batch equals the batch of the scan before
    idx_call,               \* index specification: the last call and result
    det_in,                 \* detector specifications: the contracts or
                            \* amounts handed to the detector
    det_out                 \* detector specifications: what it returned

scanVars == <<pc, threshold, limit, page, all_contracts, contracts, total_scanned,
              alerts, feed_failed>>
cacheVars == <<entity_cache, shared_address_cache, address_index,
               address_index_built, contractor_cache>>
taskVars == <<semaphore, task, local, results, history_calls, analyze_calls,
              deep_failed>>
aggVars == <<agg_raw, agg_profile>>
histVars == <<earlier_scans, prev_contracts, same_batch, idx_call>>
detVars == <<det_in, det_out>>
vars == <<deep_analysis, scanVars, cacheVars, taskVars, aggVars, histVars,
          detVars, exclusion_names>>

NoProfile == [pending |-> TRUE]
\* the locals of an analyze_contract call that the properties look at
NoLocal ==
    [started |-> FALSE, fast_flags |-> <<>>, fraud_patterns |-> <<>>,
     exclusion_match |-> FALSE, registration_age_days |-> NoneAge,
     virtual_office |-> FALSE, shared_address_count |-> 0,
     flags |-> <<>>, risk_score |-> -1, from_cache |-> FALSE]

\* DailyFraudScanner.__init__
\* no call of the index methods yet
NoCall == [op |-> "none"]

\* DailyFraudScanner.__init__
ScannerInit ==
    /\ deep_analysis \in BOOLEAN
    /\ pc = "idle"
    /\ threshold = "LOW"
    /\ limit = 0
    /\ page = 0
    /\ all_contracts = <<>>
    /\ contracts = <<>>
    /\ total_scanned = 0
    /\ entity_cache = EmptyMap
    /\ shared_address_cache = EmptyMap
    /\ address_index = EmptyMap
    /\ address_index_built = FALSE
    /\ contractor_cache = EmptyMap
    /\ semaphore = 0
    /\ task = <<>>
    /\ local = <<>>
    /\ results = <<>>
    /\ alerts = <<>>
    /\ history_calls = [u \in Ueis |-> 0]
    /\ analyze_calls = [u \in Ueis |-> 0]
    /\ deep_failed = {}
    /\ feed_failed = FALSE
    /\ agg_raw = <<>>
    /\ agg_profile = NoProfile
    /\ earlier_scans = 0
    /\ prev_contracts = <<>>
    /\ same_batch = FALSE
    /\ idx_call = NoCall
    /\ det_in = <<>>
    /\ det_out = NoCall

\* the scanner over the exclusion file whose names are ExcludedNames
Init == ScannerInit /\ exclusion_names = ExcludedNames

(***************************************************************************)
(* scan and fetch_contracts.                                               *)
(***************************************************************************)
\* scan(limit=lim) up to the first page request
ScanCall(lim) ==
    /\ pc = "idle"
    /\ pc' = "fetching"
    /\ limit' = lim
    /\ page' = 1
    /\ all_contracts' = <<>>
    /\ UNCHANGED <<deep_analysis, threshold, contracts, total_scanned, alerts,
                   feed_failed, cacheVars, taskVars, aggVars, detVars, exclusion_names, histVars>>

\* `concurrency = 20 if not self.deep_analysis else 10`
Concurrency(deep) == IF ~deep THEN ConcurrencyFast ELSE ConcurrencyDeep

\* scan from the return of fetch_contracts to the gather: the empty batch
\* returns at once, otherwise the index is built and the tasks are created
AfterFetch(batch) ==
    /\ contracts' = batch
    /\ same_batch' = (earlier_scans > 0 /\ batch = prev_contracts)
    /\ prev_contracts' = <<>>
    /\ IF batch = <<>>
       THEN /\ pc' = "returned"
            /\ alerts' = <<>>
            /\ total_scanned' = 0
            /\ UNCHANGED <<cacheVars, taskVars>>
       ELSE LET b == BuildAddressIndex(batch, entity_cache, address_index,
                                       address_index_built)
            IN /\ pc' = "analyzing"
               /\ total_scanned' = Len(batch)
               /\ entity_cache' = b.ecache
               /\ address_index' = b.index
               /\ address_index_built' = b.built
               /\ semaphore' = Concurrency(deep_analysis)
               /\ task' = [i \in DOMAIN batch |-> "ready"]
               /\ local' = [i \in DOMAIN batch |-> NoLocal]
               /\ results' = [i \in DOMAIN batch |-> NoAlert]
               /\ UNCHANGED <<alerts, shared_address_cache, contractor_cache,
                              history_calls, analyze_calls, deep_failed>>

\* one iteration of the loop of fetch_contracts on a page result
\* (contracts cs, has_next); the last iteration runs on into scan
FetchStep(cs, has_next) ==
    LET all == all_contracts \o cs
    IN IF ~has_next \/ Len(all) >= limit
       THEN \* fetch_contracts returns and its locals are gone
            /\ page' = 0
            /\ all_contracts' = <<>>
            /\ AfterFetch(Take(all, limit))
       ELSE /\ page' = page + 1
            /\ all_contracts' = all
            /\ UNCHANGED <<pc, contracts, total_scanned, alerts, cacheVars,
                           taskVars, prev_contracts, same_batch>>

\* the pages the feed can answer with: up to PageSize contracts not yet sent
Pages ==
    {cs \in UNION {[1..n -> Pool] : n \in 0..PageSize} :
        /\ \A i, j \in DOMAIN cs : i # j => cs[i] # cs[j]
        /\ \A i \in DOMAIN cs : cs[i] \notin Range(all_contracts)}

\* search_contracts answers page `page` with status 200
FetchPageOk ==
    /\ pc = "fetching"
    /\ page <= MaxPages
    /\ \E cs \in Pages, has_next \in BOOLEAN : FetchStep(cs, has_next)
    /\ UNCHANGED <<deep_analysis, threshold, limit, feed_failed, aggVars, detVars, exclusion_names,
                   earlier_scans, idx_call>>

\* search_contracts gets status 400 or 422: it returns an empty result with
\* has_next False
FetchPageBadRequest ==
    /\ pc = "fetching"
    /\ page <= MaxPages
    /\ feed_failed' = TRUE
    /\ FetchStep(<<>>, FALSE)
    /\ UNCHANGED <<deep_analysis, threshold, limit, aggVars, detVars, exclusion_names, earlier_scans,
                   idx_call>>

\* search_contracts raises (raise_for_status or a transport error); neither
\* fetch_contracts nor scan catches it
FetchPageRaise ==
    /\ pc = "fetching"
    /\ page <= MaxPages
    /\ feed_failed' = TRUE
    /\ pc' = "raised"
    /\ page' = 0
    /\ all_contracts' = <<>>
    /\ UNCHANGED <<deep_analysis, threshold, limit, contracts, total_scanned,
                   alerts, cacheVars, taskVars, aggVars, detVars, exclusion_names, histVars>>

(***************************************************************************)
(* The analysis tasks: analyze_with_progress around analyze_contract, as   *)
(* steps on the record of the state the tasks share.  gather creates the   *)
(* tasks in batch order and the event loop gives each its first step in    *)
(* that order before any suspended task is resumed.                        *)
(***************************************************************************)
TaskState ==
    [task |-> task, local |-> local, results |-> results,
     semaphore |-> semaphore, entity_cache |-> entity_cache,
     shared_address_cache |-> shared_address_cache,
     contractor_cache |-> contractor_cache, history_calls |-> history_calls,
     analyze_calls |-> analyze_calls, deep_failed |-> deep_failed,
     raised |-> FALSE]

\* faulty variant: acquire never waits
SemAlwaysAvailable(sem) == TRUE

\* Semaphore.acquire does not block
SemAvailable(sem) == sem > 0

\* faulty variant: the try block without its except clause
TryDeepAnalysisNoExcept(uei, name) ==
    LET hist == GetContractorContracts(name)
        r == AnalyzeContractor(uei, hist)
    IN IF r.raised
       THEN [propagates |-> TRUE, failed |-> TRUE, entry |-> NoneEntry]
       ELSE [propagates |-> FALSE, failed |-> FALSE,
             entry |-> CacheEntry(r.risk_profile, hist)]

\* the try block of step 5 and its except clause: the cache entry to store,
\* or the exception leaving analyze_contract
TryDeepAnalysis(uei, name) ==
    LET hist == GetContractorContracts(name)
        r == AnalyzeContractor(uei, hist)
    IN IF r.raised
       THEN [propagates |-> FALSE, failed |-> TRUE, entry |-> NoneEntry]
       ELSE [propagates |-> FALSE, failed |-> FALSE,
             entry |-> CacheEntry(r.risk_profile, hist)]

LocalsOf(fast, merged, from_cache) ==
    [started |-> TRUE, fast_flags |-> fast.flags,
     fraud_patterns |-> merged.fraud_patterns,
     exclusion_match |-> fast.exclusion_match,
     registration_age_days |-> fast.registration_age_days,
     virtual_office |-> fast.virtual_office,
     shared_address_count |-> fast.shared_address_count,
     flags |-> merged.flags, risk_score |-> RiskScore(merged.flags),
     from_cache |-> from_cache]

\* the fast-check part of a suspended frame, as FastChecks returned it
FastOf(l) ==
    [flags |-> l.fast_flags, fraud_patterns |-> l.fraud_patterns,
     exclusion_match |-> l.exclusion_match,
     registration_age_days |-> l.registration_age_days,
     virtual_office |-> l.virtual_office,
     shared_address_count |-> l.shared_address_count]

\* the task the event loop runs next for the first time
NextReady(ts, i) ==
    /\ i \in DOMAIN ts.task
    /\ ts.task[i] = "ready"
    /\ \A j \in DOMAIN ts.task : j < i => ts.task[j] # "ready"

\* the first waiter of the semaphore
FirstBlocked(ts, i) ==
    /\ i \in DOMAIN ts.task
    /\ ts.task[i] = "blocked"
    /\ \A j \in DOMAIN ts.task : j < i => ts.task[j] # "blocked"

\* task i gets the semaphore now
CanEnter(ts, i) ==
    /\ NextReady(ts, i) \/ FirstBlocked(ts, i)
    /\ SemAvailable(ts.semaphore)

\* task i finds the semaphore taken on its first step
MustBlock(ts, i) == NextReady(ts, i) /\ ~SemAvailable(ts.semaphore)

\* faulty variant: a recorded failure counts as a cache miss
SuspendsOnRecordedFailure(ts, c, deep) ==
    /\ deep
    /\ c.recipient_uei # NoUei
    /\ IF c.recipient_uei \in DOMAIN ts.contractor_cache
       THEN ts.contractor_cache[c.recipient_uei].is_none
       ELSE TRUE

\* `if self.deep_analysis: if uei not in self._contractor_cache:` holds, so
\* analyze_contract awaits the history request
Suspends(ts, c, deep) ==
    /\ deep
    /\ c.recipient_uei # NoUei
    /\ c.recipient_uei \notin DOMAIN ts.contractor_cache

\* task i waits in Semaphore.acquire
Block(ts, i) == [ts EXCEPT !.task[i] = "blocked"]

\* faulty variant: analyze_contract without `if not contract.recipient_uei`
EnterNoWaitNoSkip(ts, c, i, deep, index) ==
    LET fast == FastChecks(c, ts.entity_cache, ts.shared_address_cache, index)
        merged == IF deep /\ c.recipient_uei \in DOMAIN ts.contractor_cache
                  THEN MergeCached(ts.contractor_cache[c.recipient_uei],
                                   fast.flags, fast.fraud_patterns)
                  ELSE NoDeep(fast)
    IN [ts EXCEPT !.task[i] = "done",
                  !.local[i] = LocalsOf(fast, merged, deep),
                  !.results[i] = MakeAlert(c, fast, merged),
                  !.entity_cache = fast.ecache,
                  !.shared_address_cache = fast.sacache]

\* task i runs analyze_contract to its end without suspending: no
\* identifier, fast mode, or the contractor is in the cache
EnterNoWait(ts, c, i, deep, index) ==
    IF c.recipient_uei = NoUei
    THEN [ts EXCEPT !.task[i] = "done",
                    !.local[i] = [NoLocal EXCEPT !.started = TRUE],
                    !.results[i] = NoAlert]
    ELSE LET fast == FastChecks(c, ts.entity_cache, ts.shared_address_cache, index)
             merged == IF deep
                       THEN MergeCached(ts.contractor_cache[c.recipient_uei],
                                        fast.flags, fast.fraud_patterns)
                       ELSE NoDeep(fast)
         IN [ts EXCEPT !.task[i] = "done",
                       !.local[i] = LocalsOf(fast, merged, deep),
                       !.results[i] = MakeAlert(c, fast, merged),
                       !.entity_cache = fast.ecache,
                       !.shared_address_cache = fast.sacache]

\* task i takes the semaphore, runs the fast checks, misses the contractor
\* cache and suspends in the history request of _get_contractor_contracts
EnterSuspend(ts, c, i, index) ==
    LET fast == FastChecks(c, ts.entity_cache, ts.shared_address_cache, index)
    IN [ts EXCEPT !.task[i] = "awaiting",
                  !.semaphore = @ - 1,
                  !.local[i] = LocalsOf(fast, NoDeep(fast), FALSE),
                  !.entity_cache = fast.ecache,
                  !.shared_address_cache = fast.sacache,
                  !.history_calls[c.recipient_uei] = @ + 1]

\* the history request of task i completes: analyze_contractor runs, the
\* cache entry is stored, the indicators are merged, the alert is scored and
\* the semaphore is released; an exception that leaves analyze_contract is
\* re-raised by gather in scan
Resume(ts, c, i) ==
    LET uei == c.recipient_uei
        d == TryDeepAnalysis(uei, c.recipient_name)
        fast == FastOf(ts.local[i])
        merged == MergeCached(d.entry, fast.flags, fast.fraud_patterns)
        t1 == [ts EXCEPT !.task[i] = "done",
                         !.semaphore = @ + 1,
                         !.analyze_calls[uei] = @ + 1,
                         !.deep_failed = IF d.failed THEN @ \cup {uei} ELSE @]
    IN IF d.propagates
       THEN [t1 EXCEPT !.raised = TRUE]
       ELSE [t1 EXCEPT !.contractor_cache =
                            [u \in DOMAIN ts.contractor_cache \cup {uei} |->
                                IF u = uei THEN d.entry ELSE ts.contractor_cache[u]],
                       !.local[i] = LocalsOf(fast, merged, FALSE),
                       !.results[i] = MakeAlert(c, fast, merged)]

\* the shared state after a step
SetTaskState(ts) ==
    /\ task' = ts.task
    /\ local' = ts.local
    /\ results' = ts.results
    /\ semaphore' = ts.semaphore
    /\ entity_cache' = ts.entity_cache
    /\ shared_address_cache' = ts.shared_address_cache
    /\ contractor_cache' = ts.contractor_cache
    /\ history_calls' = ts.history_calls
    /\ analyze_calls' = ts.analyze_calls
    /\ deep_failed' = ts.deep_failed
    /\ pc' = IF ts.raised THEN "raised" ELSE pc

scanLocals == <<threshold, limit, page, all_contracts, contracts, total_scanned,
                alerts, feed_failed>>

AnalyzeBlock(i) ==
    /\ pc = "analyzing"
    /\ MustBlock(TaskState, i)
    /\ SetTaskState(Block(TaskState, i))
    /\ UNCHANGED <<deep_analysis, scanLocals, address_index, address_index_built,
                   aggVars, detVars, exclusion_names, histVars>>

AnalyzeNoWait(i) ==
    /\ pc = "analyzing"
    /\ CanEnter(TaskState, i)
    /\ ~Suspends(TaskState, contracts[i], deep_analysis)
    /\ SetTaskState(EnterNoWait(TaskState, contracts[i], i, deep_analysis,
                                address_index))
    /\ UNCHANGED <<deep_analysis, scanLocals, address_index, address_index_built,
                   aggVars, detVars, exclusion_names, histVars>>

AnalyzeSuspend(i) ==
    /\ pc = "analyzing"
    /\ CanEnter(TaskState, i)
    /\ Suspends(TaskState, contracts[i], deep_analysis)
    /\ SetTaskState(EnterSuspend(TaskState, contracts[i], i, address_index))
    /\ UNCHANGED <<deep_analysis, scanLocals, address_index, address_index_built,
                   aggVars, detVars, exclusion_names, histVars>>

\* a suspended task is resumed only after every task had its first step
AnalyzeResume(i) ==
    /\ pc = "analyzing"
    /\ i \in DOMAIN task
    /\ task[i] = "awaiting"
    /\ \A j \in DOMAIN task : task[j] # "ready"
    /\ SetTaskState(Resume(TaskState, contracts[i], i))
    /\ UNCHANGED <<deep_analysis, scanLocals, address_index, address_index_built,
                   aggVars, detVars, exclusion_names, histVars>>

\* gather has every result: scan filters, sorts and returns. The argument
\* `threshold` of scan is read only for this filter and is drawn here.
ScanReturn(th) ==
    /\ pc = "analyzing"
    /\ \A i \in DOMAIN task : task[i] = "done"
    /\ threshold' = th
    /\ alerts' = SortAlerts(FilterAlerts(results, LevelIndex(th)))
    /\ pc' = "returned"
    /\ UNCHANGED <<deep_analysis, limit, page, all_contracts, contracts,
                   total_scanned, feed_failed, cacheVars, taskVars,
                   aggVars, detVars, exclusion_names, histVars>>

Next ==
    \/ \E lim \in 1..MaxBatch : ScanCall(lim)
    \/ FetchPageOk
    \/ FetchPageBadRequest
    \/ FetchPageRaise
    \/ \E i \in 1..MaxBatch : AnalyzeBlock(i)
    \/ \E i \in 1..MaxBatch : AnalyzeNoWait(i)
    \/ \E i \in 1..MaxBatch : AnalyzeSuspend(i)
    \/ \E i \in 1..MaxBatch : AnalyzeResume(i)
    \/ \E th \in ThresholdLevels : ScanReturn(th)

Spec == Init /\ [][Next]_vars

\* the same scan over either exclusion file: the one of ExcludedNames, or one
\* that has in addition a record whose Name contains "unknown" in some letter
\* case (search_exclusions matches the case-folded name as a substring)
ExclusionFileInit ==
    /\ ScannerInit
    /\ exclusion_names \in {ExcludedNames, ExcludedNames \cup {"Unknown"}}

ExclusionFileSpec == ExclusionFileInit /\ [][Next]_vars

\* a step of some analysis task
AnalyzeStep ==
    \E i \in 1..MaxBatch :
        AnalyzeBlock(i) \/ AnalyzeNoWait(i) \/ AnalyzeSuspend(i) \/ AnalyzeResume(i)

\* the guards of the four task steps: ENABLED <<AnalyzeStep>>_vars written
\* out (every task step changes task[i])
AnalyzeStepEnabled ==
    /\ pc = "analyzing"
    /\ \E i \in 1..MaxBatch :
          \/ MustBlock(TaskState, i)
          \/ CanEnter(TaskState, i)
          \/ /\ i \in DOMAIN task
             /\ task[i] = "awaiting"
             /\ \A j \in DOMAIN task : task[j] # "ready"

\* the event loop is fair to the tasks and every history request ends (the
\* HTTP client has a timeout): weak fairness of the task steps, in the form
\* []<>~ENABLED \/ []<>step with the guards above, and WF of the return
LiveSpec ==
    /\ Spec
    /\ ([]<>(~AnalyzeStepEnabled) \/ []<><<AnalyzeStep>>_vars)
    /\ WF_vars(\E th \in ThresholdLevels : ScanReturn(th))

(***************************************************************************)
(* One scanner used for several scans: scan is called again after it has   *)
(* returned.  The locals of the earlier call are gone; the five caches of  *)
(* __init__ are attributes of the scanner and stay.                        *)
(***************************************************************************)
ScanAgain(lim) ==
    /\ pc = "returned"
    /\ earlier_scans < MaxRescans
    /\ earlier_scans' = earlier_scans + 1
    /\ prev_contracts' = contracts
    /\ same_batch' = FALSE
    /\ pc' = "fetching"
    /\ limit' = lim
    /\ page' = 1
    /\ all_contracts' = <<>>
    /\ contracts' = <<>>
    /\ total_scanned' = 0
    /\ threshold' = "LOW"
    /\ alerts' = <<>>
    /\ feed_failed' = FALSE
    /\ semaphore' = 0
    /\ task' = <<>>
    /\ local' = <<>>
    /\ results' = <<>>
    /\ history_calls' = [u \in Ueis |-> 0]
    /\ analyze_calls' = [u \in Ueis |-> 0]
    /\ deep_failed' = {}
    /\ UNCHANGED <<deep_analysis, cacheVars, aggVars, detVars, exclusion_names, idx_call>>

RescanNext ==
    \/ Next
    \/ \E lim \in 1..MaxBatch : ScanAgain(lim)

RescanSpec == Init /\ [][RescanNext]_vars

(***************************************************************************)
(* The aggregator on its own: analyze_contractor over every collected      *)
(* list of up to MaxInds indicators.                                       *)
(***************************************************************************)
AggIndicators ==
    { Ind(c, p, sv[1], sv[2]) :
        c \in {"PRICING", "ENTITY"}, p \in {"P1", "P2"},
        sv \in {<<"CRITICAL", 30>>, <<"MEDIUM", 10>>} }

AggInit == Init /\ deep_analysis = FALSE

\* a detector emits one more indicator into all_indicators
AggEmit(ind) ==
    /\ Len(agg_raw) < MaxInds
    /\ agg_raw' = Append(agg_raw, ind)
    /\ agg_profile' = NoProfile
    /\ UNCHANGED <<deep_analysis, scanVars, cacheVars, taskVars, histVars, detVars, exclusion_names>>

\* analyze_contractor from the deduplication on
AggAnalyze ==
    /\ agg_profile = NoProfile
    /\ agg_profile' = BuildProfile("U4", "Unknown", agg_raw)
    /\ UNCHANGED <<deep_analysis, scanVars, cacheVars, taskVars, histVars, agg_raw, detVars, exclusion_names>>

AggNext ==
    \/ \E ind \in AggIndicators : AggEmit(ind)
    \/ AggAnalyze

AggSpec == AggInit /\ [][AggNext]_vars

(***************************************************************************)
(* The tiers of the profile: analyze_contractor over collected lists whose *)
(* totals fall on both sides of every tier boundary.  The k-th indicator   *)
(* of a list has the k-th (category, pattern type) pair, so none is        *)
(* dropped by the deduplication and the total is the sum of the scores.    *)
(***************************************************************************)
TierKeys ==
    << <<"PRICING", "P1">>, <<"ENTITY", "P1">>, <<"PRICING", "P2">>,
       <<"ENTITY", "P2">>, <<"TEMPORAL", "P1">> >>

TierScores == {0, 5, 15, 19, 20, 30}

TierSeverities == {"CRITICAL", "HIGH", "MEDIUM"}

\* a detector emits the next indicator into all_indicators
TierEmit(sev, score) ==
    /\ Len(agg_raw) < MaxTierInds
    /\ LET key == TierKeys[Len(agg_raw) + 1]
       IN agg_raw' = Append(agg_raw, Ind(key[1], key[2], sev, score))
    /\ agg_profile' = NoProfile
    /\ UNCHANGED <<deep_analysis, scanVars, cacheVars, taskVars, histVars, detVars, exclusion_names>>

TierNext ==
    \/ \E sev \in TierSeverities, score \in TierScores : TierEmit(sev, score)
    \/ AggAnalyze

TierSpec == AggInit /\ [][TierNext]_vars

(***************************************************************************)
(* The address index on its own: _build_address_index and                  *)
(* check_shared_address called as scan calls them (the build first, then   *)
(* the lookups of the tasks in any order, and the build again by a later   *)
(* scan), over batches drawn from a directory with a cluster of three      *)
(* identifiers at one address key, an identifier without a record and one  *)
(* with an empty address.                                                  *)
(***************************************************************************)
IdxUeis == {"U1", "U2", "U3", "U4", "U5", "U6"}

RECURSIVE SetToBatch(_)
\* one contract per identifier of S
SetToBatch(S) ==
    IF S = {} THEN <<>>
    ELSE LET u == CHOOSE x \in S : TRUE
         IN <<Contract("C0", u, "N0", 0)>> \o SetToBatch(S \ {u})

\* batches in which every contractor has two contracts
IdxBatches ==
    { SetToBatch(S) \o SetToBatch(S) :
        S \in {T \in SUBSET (IdxUeis \cup {NoUei}) : Cardinality(T) <= MaxIdxBatch} }

\* self._build_address_index(contracts)
IdxBuild(batch) ==
    /\ LET b == BuildAddressIndex(batch, entity_cache, address_index,
                                  address_index_built)
       IN /\ entity_cache' = b.ecache
          /\ address_index' = b.index
          /\ address_index_built' = b.built
    /\ contracts' = IF address_index_built THEN contracts ELSE batch
    /\ idx_call' = [op |-> "build", was_built |-> address_index_built]
    /\ UNCHANGED <<deep_analysis, pc, threshold, limit, page, all_contracts,
                   total_scanned, alerts, feed_failed, shared_address_cache,
                   contractor_cache, taskVars, aggVars, detVars, exclusion_names, earlier_scans,
                   prev_contracts, same_batch>>

\* self.check_shared_address(uei), called by the tasks after the build
IdxLookup(uei) ==
    /\ address_index_built
    /\ LET r == CheckSharedAddress(entity_cache, shared_address_cache,
                                   address_index, uei)
       IN /\ entity_cache' = r.ecache
          /\ shared_address_cache' = r.sacache
          /\ idx_call' = [op |-> "lookup", uei |-> uei, count |-> r.count,
                          hit |-> uei \in DOMAIN shared_address_cache]
    /\ UNCHANGED <<deep_analysis, scanVars, address_index, address_index_built,
                   contractor_cache, taskVars, aggVars, detVars, exclusion_names, earlier_scans,
                   prev_contracts, same_batch>>

IdxNext ==
    \/ \E batch \in IdxBatches : IdxBuild(batch)
    \/ \E uei \in IdxUeis : IdxLookup(uei)

IndexSpec == AggInit /\ [][IdxNext]_vars

(***************************************************************************)
(* The pure detectors of src/detectors, each driven by a specification of  *)
(* its own: det_in is the argument list under construction, det_out the    *)
(* value the detector returned for it.                                     *)
(***************************************************************************)
\* a Contract as the pricing detectors read it; start_date is a day number,
\* or BadDate when strptime(c.start_date, "%Y-%m-%d") raises
Award(uei, agency, start_date, value) ==
    [recipient_uei |-> uei, agency |-> agency, start_date |-> start_date,
     total_obligation |-> value]

\* pricing.THRESHOLDS, in the order of the dict
THRESHOLDS == <<10000, 250000, 750000, 7500000, 1000000>>

\* the default of the parameter lookback_days
LookbackDays == 180

\* faulty variant: no rolling window
InLookbackUnbounded(start_date) == TRUE

\* `award_date >= cutoff_date`, cutoff_date = datetime.now() - 180 days; the
\* clock is past midnight, so a date exactly 180 days back is outside
InLookback(start_date) == Now - start_date < LookbackDays

\* the dates of a contract list
DatesOf(cs) == [k \in DOMAIN cs |-> cs[k].start_date]

RECURSIVE InsertDate(_, _)
InsertDate(sorted, d) ==
    IF sorted = <<>> THEN <<d>>
    ELSE IF d <= Head(sorted) THEN <<d>> \o sorted
         ELSE <<Head(sorted)>> \o InsertDate(Tail(sorted), d)

RECURSIVE SortDates(_)
\* dates.sort()
SortDates(ds) ==
    IF ds = <<>> THEN <<>> ELSE InsertDate(SortDates(Tail(ds)), Head(ds))

RECURSIVE GapSum(_)
\* sum((dates[i+1] - dates[i]).days for i in range(len(dates)-1))
GapSum(ds) ==
    IF Len(ds) < 2 THEN 0 ELSE (ds[2] - ds[1]) + GapSum(Tail(ds))

RECURSIVE ObligationSum(_)
\* sum(c.total_obligation for c in near_threshold)
ObligationSum(cs) ==
    IF cs = <<>> THEN 0 ELSE Head(cs).total_obligation + ObligationSum(Tail(cs))

\* the body of `for threshold_name, threshold_value in THRESHOLDS.items()`:
\* lower_bound = 0.85 * threshold, upper_bound = 0.999 * threshold, and the
\* test avg_gap < 45 with the quotient multiplied out
SplittingAt(relevant, threshold_value) ==
    LET Near(c) == /\ c.total_obligation * 100 >= threshold_value * 85
                   /\ c.total_obligation * 1000 < threshold_value * 999
        near_threshold == SelectSeq(relevant, Near)
        dates == SortDates(DatesOf(near_threshold))
    IN IF /\ Len(near_threshold) >= 3
          /\ Len(dates) >= 2
          /\ GapSum(dates) < 45 * (Len(dates) - 1)
       THEN << [pattern_type |-> "CONTRACT_SPLITTING", severity |-> "HIGH",
                score |-> 20, threshold_value |-> threshold_value,
                contract_count |-> Len(near_threshold),
                total_value |-> ObligationSum(near_threshold)] >>
       ELSE <<>>

RECURSIVE SplittingLoop(_, _)
SplittingLoop(relevant, thresholds) ==
    IF thresholds = <<>> THEN <<>>
    ELSE SplittingAt(relevant, Head(thresholds))
             \o SplittingLoop(relevant, Tail(thresholds))

\* pricing.detect_contract_splitting(contracts, contractor_uei, agency)
DetectContractSplitting(cs, contractor_uei, agency) ==
    LET Relevant(c) == /\ c.recipient_uei = contractor_uei
                       /\ c.agency = agency
                       /\ c.start_date # BadDate
                       /\ InLookback(c.start_date)
        relevant == SelectSeq(cs, Relevant)
    IN IF Len(relevant) < 3 THEN <<>> ELSE SplittingLoop(relevant, THRESHOLDS)

\* the splitting part of pricing.analyze_contractor_pricing: the findings of
\* each agency of the contractor, as a function of the agency, since the
\* iteration order of the agency set is not fixed
SplittingByAgency(cs, contractor_uei) ==
    LET agencies == {cs[k].agency : k \in {j \in DOMAIN cs :
                        cs[j].recipient_uei = contractor_uei /\ cs[j].agency # ""}}
    IN [a \in agencies |-> DetectContractSplitting(cs, contractor_uei, a)]

MaxSplit == 4

\* the awards the contract lists are drawn from: values between the bounds
\* of the 250000 threshold on dates long ago, 200 days back and inside the
\* window and with a date that does not parse, values at the bounds, a value under
\* the 1000000 threshold, another contractor and another agency
SplitCatalogue ==
    LET dates == <<Now - 400, Now - 200, Now - 90, Now - 40, Now - 20, Now,
                   BadDate>>
    IN
    [k \in 1..21 |-> Award("X", "A", dates[((k - 1) % 7) + 1],
                           <<235000, 240000, 245000>>[((k - 1) \div 7) + 1])]
    \o [k \in 1..6 |-> Award("X", "A", <<Now - 20, Now>>[((k - 1) % 2) + 1],
                             <<212499, 212500, 249750>>[((k - 1) \div 2) + 1])]
    \o << Award("X", "A", Now - 20, 900000),
          Award("Y", "A", Now - 20, 240000),
          Award("X", "B", Now - 20, 240000),
          Award("X", "", Now - 20, 240000) >>

\* one more contract of the history; lists are enumerated up to the order of
\* their contracts, which no step of the detector depends on
SplitAdd(k) ==
    /\ det_out = NoCall
    /\ Len(det_in) < MaxSplit
    /\ IF det_in = <<>> THEN TRUE ELSE k >= det_in[Len(det_in)].k
    /\ det_in' = Append(det_in, [k |-> k, c |-> SplitCatalogue[k]])
    /\ UNCHANGED <<deep_analysis, scanVars, cacheVars, taskVars, aggVars,
                   histVars, det_out, exclusion_names>>

\* the splitting check of analyze_contractor_pricing(contracts, uei)
SplitDetect(uei) ==
    /\ det_out = NoCall
    /\ LET cs == [j \in DOMAIN det_in |-> det_in[j].c]
       IN det_out' = [op |-> "splitting", uei |-> uei,
                      found |-> SplittingByAgency(cs, uei)]
    /\ UNCHANGED <<deep_analysis, scanVars, cacheVars, taskVars, aggVars,
                   histVars, det_in, exclusion_names>>

SplitNext ==
    \/ \E k \in DOMAIN SplitCatalogue : SplitAdd(k)
    \/ \E uei \in {"X", "Y"} : SplitDetect(uei)

SplitSpec == AggInit /\ [][SplitNext]_vars

(***************************************************************************)
(* detectors/benford.py. The amounts of a contractor are a bag: amount ->  *)
(* number of contracts with that total_obligation.                         *)
(***************************************************************************)
\* BENFORD_EXPECTED, in thousandths
BENFORD_EXPECTED == <<301, 176, 125, 97, 79, 67, 58, 51, 46>>

\* the default of the parameter min_samples of analyze_benfords_law
MinSamplesDefault == 50

RECURSIVE LeadingDigit(_)
LeadingDigit(n) == IF n < 10 THEN n ELSE LeadingDigit(n \div 10)

\* get_first_digit; 0 stands for None
get_first_digit(n) == IF n <= 0 THEN 0 ELSE LeadingDigit(n)

RECURSIVE SumCounts(_, _)
SumCounts(bag, S) ==
    IF S = {} THEN 0
    ELSE LET a == CHOOSE x \in S : TRUE IN bag[a] + SumCounts(bag, S \ {a})

\* Counter(first_digits)[digit]
DigitCount(bag, digit) ==
    SumCounts(bag, {a \in DOMAIN bag : get_first_digit(a) = digit})

\* ((obs - exp) ** 2) / exp * total for one digit, in units of 1/(1000 *
\* total) and rounded down: with x = |1000 * count - total * exp|, the
\* integer part of x * x / exp, computed without leaving 32 bits
ChiContribution(count, total, exp) ==
    LET d == 1000 * count - total * exp
        x == IF d < 0 THEN 0 - d ELSE d
        q == x \div exp
        r == x % exp
    IN x * q + r * q + (r * r) \div exp

RECURSIVE ChiSquareLoop(_, _, _)
\* the loop `for digit in range(1, 10)` from digit on
ChiSquareLoop(bag, total, digit) ==
    IF digit > 9 THEN 0
    ELSE ChiContribution(DigitCount(bag, digit), total, BENFORD_EXPECTED[digit])
             + ChiSquareLoop(bag, total, digit + 1)

\* benford.analyze_benfords_law(amounts, min_samples); chi_square is kept in
\* units of 1/(1000 * total), CHI_SQUARE_CRITICAL = 15.51 likewise
analyze_benfords_law(bag, min_samples) ==
    LET total == SumCounts(bag, {a \in DOMAIN bag : get_first_digit(a) # 0})
        chi_square == ChiSquareLoop(bag, total, 1)
    IN IF total < min_samples THEN [is_none |-> TRUE]
       ELSE [is_none |-> FALSE, chi_square |-> chi_square,
             is_anomalous |-> chi_square > 15510 * total,
             sample_size |-> total]

\* benford.analyze_contractor_amounts, on the amounts of the contractor
analyze_contractor_amounts(bag) ==
    LET positive == {a \in DOMAIN bag : a > 0}
        amounts == [a \in positive |-> bag[a]]
    IN IF SumCounts(bag, positive) < 30 THEN [is_none |-> TRUE]
       ELSE LET result == analyze_benfords_law(amounts, MinSamplesDefault)
            IN IF ~result.is_none /\ result.is_anomalous
               THEN [is_none |-> FALSE, pattern_type |-> "BENFORDS_LAW_VIOLATION",
                     severity |-> "MEDIUM", score |-> 10,
                     sample_size |-> result.sample_size]
               ELSE [is_none |-> TRUE]

MaxAmounts == 60

\* n more contracts of amount a
BagAdd(bag, a, n) ==
    [x \in DOMAIN bag \cup {a} |->
        (IF x \in DOMAIN bag THEN bag[x] ELSE 0) + (IF x = a THEN n ELSE 0)]

\* ten amounts whose first digits are spread as Benford's law expects
BenfordBlock == <<1200, 150, 18000, 2500, 27, 3100, 470, 50000, 600, 88>>

RECURSIVE BagAddAll(_, _)
BagAddAll(bag, amounts) ==
    IF amounts = <<>> THEN bag
    ELSE BagAddAll(BagAdd(bag, Head(amounts), 1), Tail(amounts))

\* the number of positive amounts of det_in
PositiveAmounts == SumCounts(det_in, {a \in DOMAIN det_in : a > 0})

\* ten more contracts, with amounts of an inconspicuous distribution
BenAddBlock ==
    /\ det_out = NoCall
    /\ PositiveAmounts + 10 <= MaxAmounts
    /\ det_in' = BagAddAll(det_in, BenfordBlock)
    /\ UNCHANGED <<deep_analysis, scanVars, cacheVars, taskVars, aggVars,
                   histVars, det_out, exclusion_names>>

\* n more contracts of 9999
BenAddNines(n) ==
    /\ det_out = NoCall
    /\ PositiveAmounts + n <= MaxAmounts
    /\ det_in' = BagAdd(det_in, 9999, n)
    /\ UNCHANGED <<deep_analysis, scanVars, cacheVars, taskVars, aggVars,
                   histVars, det_out, exclusion_names>>

\* one more contract with a zero or negative obligation
BenAddNonPositive(a) ==
    /\ det_out = NoCall
    /\ SumCounts(det_in, {x \in DOMAIN det_in : x <= 0}) < 2
    /\ det_in' = BagAdd(det_in, a, 1)
    /\ UNCHANGED <<deep_analysis, scanVars, cacheVars, taskVars, aggVars,
                   histVars, det_out, exclusion_names>>

\* detect_statistical_anomalies calls analyze_contractor_amounts
BenDetect ==
    /\ det_out = NoCall
    /\ det_out' = [op |-> "benford", found |-> analyze_contractor_amounts(det_in)]
    /\ UNCHANGED <<deep_analysis, scanVars, cacheVars, taskVars, aggVars,
                   histVars, det_in, exclusion_names>>

BenNext ==
    \/ BenAddBlock
    \/ \E n \in {1, 9} : BenAddNines(n)
    \/ \E a \in {0, -5} : BenAddNonPositive(a)
    \/ BenDetect

BenSpec == AggInit /\ [][BenNext]_vars

(***************************************************************************)
(* detectors/modifications.py, analyze_contractor_modifications. A         *)
(* contract is given by the attributes the function reads: total_obligation*)
(* and, if the object has it, base_exercised_options_value; the Contract   *)
(* objects of the feed have base_and_all_options instead and no            *)
(* modification_count.                                                     *)
(***************************************************************************)
ModContract(current, base_and_all_options, has_base, base) ==
    [total_obligation |-> current, base_and_all_options |-> base_and_all_options,
     has_base_exercised |-> has_base, base_exercised_options_value |-> base]

\* getattr(contract, 'base_exercised_options_value', 0) or
\* getattr(contract, 'base_and_all_options_value', 0) or 0, and the line
\* `if not original_value: original_value = current_value`
OriginalValue(c) ==
    LET read == IF c.has_base_exercised THEN c.base_exercised_options_value ELSE 0
    IN IF read = 0 THEN c.total_obligation ELSE read

\* the check `# Check value growth` for the contract at position id:
\* current_value > original_value * 1.5, then growth < 2.0
ValueGrowth(c, id) ==
    LET original_value == OriginalValue(c)
        current_value == c.total_obligation
    IN IF original_value > 0 /\ 2 * current_value > 3 * original_value
       THEN LET below_two == current_value - original_value < 2 * original_value
            IN << [pattern_type |-> "SIGNIFICANT_VALUE_GROWTH",
                   severity |-> IF below_two THEN "MEDIUM" ELSE "HIGH",
                   score |-> IF below_two THEN 10 ELSE 15,
                   contract_id |-> id] >>
       ELSE <<>>

RECURSIVE ModificationLoop(_, _)
\* `for contract in contractor_contracts`, from position id on; mod_count is
\* 0 for every contract, so detect_excessive_modifications is not called
ModificationLoop(cs, id) ==
    IF id > Len(cs) THEN <<>>
    ELSE ValueGrowth(cs[id], id) \o ModificationLoop(cs, id + 1)

\* modifications.analyze_contractor_modifications on the contractor's
\* contracts
analyze_contractor_modifications(cs) == ModificationLoop(cs, 1)

MaxMods == 2

\* the contracts the lists are drawn from: Contract objects of the feed
\* with base_and_all_options 0 or 100, and objects that carry
\* base_exercised_options_value 0 or 100; the current values lie around
\* 1.5, 2 and 3 times an original value of 100
ModCatalogue ==
    LET currents == <<-50, 0, 100, 150, 151, 200, 201, 299, 300, 301>>
    IN [k \in 1..20 |-> ModContract(currents[((k - 1) % 10) + 1],
                                    100 * ((k - 1) \div 10), FALSE, 0)]
       \o [k \in 1..20 |-> ModContract(currents[((k - 1) % 10) + 1], 100,
                                       TRUE, 100 * ((k - 1) \div 10))]

\* one more contract of the contractor
ModAdd(k) ==
    /\ det_out = NoCall
    /\ Len(det_in) < MaxMods
    /\ IF det_in = <<>> THEN TRUE ELSE k >= det_in[Len(det_in)].k
    /\ det_in' = Append(det_in, [k |-> k, c |-> ModCatalogue[k]])
    /\ UNCHANGED <<deep_analysis, scanVars, cacheVars, taskVars, aggVars,
                   histVars, det_out, exclusion_names>>

\* detect_modification_issues calls analyze_contractor_modifications
ModDetect ==
    /\ det_out = NoCall
    /\ LET cs == [j \in DOMAIN det_in |-> det_in[j].c]
       IN det_out' = [op |-> "modifications",
                      found |-> analyze_contractor_modifications(cs)]
    /\ UNCHANGED <<deep_analysis, scanVars, cacheVars, taskVars, aggVars,
                   histVars, det_in, exclusion_names>>

ModNext ==
    \/ \E k \in DOMAIN ModCatalogue : ModAdd(k)
    \/ ModDetect

ModSpec == AggInit /\ [][ModNext]_vars

(***************************************************************************)
(* Properties.                                                             *)
(***************************************************************************)
RECURSIVE SumOver(_, _)
\* sum of f over the finite set S of arguments
SumOver(S, f) ==
    IF S = {} THEN 0
    ELSE LET x == CHOOSE y \in S : TRUE IN f[x] + SumOver(S \ {x}, f)

Capped(n) == IF n > 100 THEN 100 ELSE n

CountSeverity(flags, sev) == Cardinality({k \in DOMAIN flags : flags[k].severity = sev})

\* the severity weights of a flag list: CRITICAL 25, HIGH 15, MEDIUM 10, LOW 5
FlagWeights(flags) ==
    25 * CountSeverity(flags, "CRITICAL") + 15 * CountSeverity(flags, "HIGH")
    + 10 * CountSeverity(flags, "MEDIUM") + 5 * CountSeverity(flags, "LOW")

Done(i) == i \in DOMAIN task /\ task[i] = "done"

Alerted(i) == Done(i) /\ ~results[i].is_none

\* C1: every alert analyze_contract returns has risk_score = min(100, sum of
\* the severity weights of its flags), whatever the scores of the deep
\* indicators behind the flags are.
C1_ScoreIsCappedSeverityWeights ==
    \A i \in DOMAIN results :
        ~results[i].is_none =>
            results[i].risk_score = Capped(FlagWeights(results[i].flags))

\* an alert whose flags weigh more than 100 and one of whose deep indicators
\* has a score different from the weight of its severity
C1_Witness ==
    \E i \in DOMAIN results :
        /\ Alerted(i)
        /\ FlagWeights(results[i].flags) > 100
        /\ \E k \in DOMAIN results[i].indicator_details :
              /\ results[i].indicator_details[k].severity = "CRITICAL"
              /\ results[i].indicator_details[k].score = 30

\* the tier the claim assigns to score s and exclusion match ex
TierOf(s, ex) ==
    CASE s >= 50 \/ ex -> "CRITICAL"
      [] ~(s >= 50 \/ ex) /\ s >= 30 -> "HIGH"
      [] ~ex /\ s < 30 /\ s >= 15 -> "MEDIUM"
      [] ~ex /\ s < 15 /\ s > 0 -> "LOW"
      [] OTHER -> "none"

\* C2: for a contract with an identifier the alert tier follows the score s:
\* CRITICAL if s >= 50 or the identifier is excluded, else HIGH if s >= 30,
\* else MEDIUM if s >= 15, else LOW if s > 0; no alert is returned when
\* s = 0 and no returned alert has score 0.
C2_TierFollowsScore ==
    \A i \in DOMAIN task :
        (Done(i) /\ contracts[i].recipient_uei # NoUei) =>
            LET s == local[i].risk_score
                ex == contracts[i].recipient_uei \in ExcludedUeis
            IN /\ s = 0 <=> results[i].is_none
               /\ ~results[i].is_none =>
                     /\ results[i].risk_score = s
                     /\ s > 0
                     /\ results[i].risk_level = TierOf(s, ex)

\* an excluded contractor's alert is CRITICAL below score 50, next to a LOW
\* alert or a contract with score 0 and no alert
C2_Witness ==
    /\ \E i \in DOMAIN task :
          /\ Alerted(i)
          /\ results[i].exclusion_match
          /\ results[i].risk_score < 50
          /\ results[i].risk_level = "CRITICAL"
    /\ \E j \in DOMAIN task :
          /\ Done(j)
          /\ contracts[j].recipient_uei # NoUei
          /\ results[j].is_none \/ results[j].risk_level = "LOW"

\* the tiers at or above a minimum tier
AtOrAbove(th) ==
    CASE th = "LOW" -> {"LOW", "MEDIUM", "HIGH", "CRITICAL"}
      [] th = "MEDIUM" -> {"MEDIUM", "HIGH", "CRITICAL"}
      [] th = "HIGH" -> {"HIGH", "CRITICAL"}
      [] th = "CRITICAL" -> {"CRITICAL"}

\* C3: scan returns exactly the alerts of analyze_contract over the batch
\* whose tier is at or above the minimum tier, at most one per contract,
\* in non-increasing order of risk_score, and total_scanned is the number
\* of contracts fetched.
C3_ScanReturnsFilteredSortedAlerts ==
    pc = "returned" =>
        /\ total_scanned = Len(contracts)
        /\ Range(alerts) =
              {results[i] : i \in {j \in DOMAIN results :
                                      /\ ~results[j].is_none
                                      /\ results[j].risk_level \in AtOrAbove(threshold)}}
        /\ \A k, l \in DOMAIN alerts :
              k # l => alerts[k].contract_id # alerts[l].contract_id
        /\ \A k \in DOMAIN alerts :
              k < Len(alerts) => alerts[k].risk_score >= alerts[k + 1].risk_score

\* a returned list of two alerts in the reverse of batch order, with another
\* alert left out by the minimum tier
C3_Witness ==
    /\ pc = "returned"
    /\ Len(alerts) = 2
    /\ alerts[1].risk_score > alerts[2].risk_score
    /\ \E i, j \in DOMAIN results :
          /\ i < j
          /\ results[j] = alerts[1]
          /\ results[i] = alerts[2]
    /\ \E i \in DOMAIN results : ~results[i].is_none /\ results[i] \notin Range(alerts)

\* the tasks inside `async with semaphore`
Running == {i \in DOMAIN task : task[i] = "awaiting"}

\* C4: never more than K analyses run at once (K the semaphore size of the
\* mode), and every contract of the batch is eventually analyzed.
C4_BoundedConcurrencyAndProgress ==
    /\ [](Cardinality(Running) <= Concurrency(deep_analysis))
    /\ (pc = "analyzing") ~> (\A i \in DOMAIN contracts : Done(i))

\* K analyses run and a further task waits for the semaphore
C4_Witness ==
    /\ Cardinality(Running) = Concurrency(deep_analysis)
    /\ \E i \in DOMAIN task : task[i] = "blocked"

\* the shared state when gather starts on a batch in a new scanner
FreshTasks(batch, deep) ==
    [task |-> [i \in DOMAIN batch |-> "ready"],
     local |-> [i \in DOMAIN batch |-> NoLocal],
     results |-> [i \in DOMAIN batch |-> NoAlert],
     semaphore |-> Concurrency(deep),
     entity_cache |-> BuildAddressIndex(batch, EmptyMap, EmptyMap, FALSE).ecache,
     shared_address_cache |-> EmptyMap,
     contractor_cache |-> EmptyMap,
     history_calls |-> [u \in Ueis |-> 0],
     analyze_calls |-> [u \in Ueis |-> 0],
     deep_failed |-> {},
     raised |-> FALSE]

RECURSIVE RunInRequestOrder(_, _, _, _)
\* the schedule in which the history requests complete in the order they
\* were made: first steps in batch order, then always the waiter that can
\* enter, else the task that suspended first
RunInRequestOrder(ts, batch, deep, index) ==
    IF \E i \in DOMAIN batch : MustBlock(ts, i)
    THEN RunInRequestOrder(Block(ts, CHOOSE i \in DOMAIN batch : MustBlock(ts, i)),
                           batch, deep, index)
    ELSE IF \E i \in DOMAIN batch : CanEnter(ts, i)
    THEN LET i == CHOOSE j \in DOMAIN batch :
                     /\ CanEnter(ts, j)
                     /\ NextReady(ts, j) \/ ~\E k \in DOMAIN batch : NextReady(ts, k)
         IN RunInRequestOrder(
                IF Suspends(ts, batch[i], deep)
                THEN EnterSuspend(ts, batch[i], i, index)
                ELSE EnterNoWait(ts, batch[i], i, deep, index),
                batch, deep, index)
    ELSE IF \E i \in DOMAIN batch : ts.task[i] = "awaiting"
    THEN LET i == CHOOSE j \in DOMAIN batch :
                     /\ ts.task[j] = "awaiting"
                     /\ \A k \in DOMAIN batch : ts.task[k] = "awaiting" => j <= k
         IN RunInRequestOrder(Resume(ts, batch[i], i), batch, deep, index)
    ELSE ts

\* C5: the alert list scan returns for a batch is the same under every
\* interleaving of the analysis tasks: it is the list returned when the
\* history requests complete in request order.
C5_SameAlertsUnderEveryInterleaving ==
    (pc = "returned" /\ contracts # <<>>) =>
        alerts = SortAlerts(FilterAlerts(
                    RunInRequestOrder(FreshTasks(contracts, deep_analysis), contracts,
                                      deep_analysis, address_index).results,
                    LevelIndex(threshold)))

\* C6: in one scan the history fetch and analyze_contractor run at most once
\* per contractor identifier.
C6_DeepAnalysisAtMostOncePerContractor ==
    \A u \in Ueis : history_calls[u] <= 1 /\ analyze_calls[u] <= 1

\* C7: a contractor whose deep analysis raised has no deep findings: the
\* flags of its contracts are those of the fast checks and they are scored
\* into the alert; the scan goes on, and returns after every contract of the
\* batch was analyzed.
C7_DeepFailureIsIsolated ==
    /\ \A i \in DOMAIN task :
          (Done(i) /\ contracts[i].recipient_uei \in deep_failed) =>
              /\ local[i].flags = local[i].fast_flags
              /\ IF FlagWeights(local[i].fast_flags) = 0
                 THEN results[i].is_none
                 ELSE /\ ~results[i].is_none
                      /\ results[i].flags = local[i].fast_flags
                      /\ results[i].risk_score = Capped(FlagWeights(local[i].fast_flags))
                      /\ results[i].indicator_details = <<>>
    /\ deep_failed # {} => pc \in {"analyzing", "returned"}
    /\ pc = "returned" => \A i \in DOMAIN contracts : Done(i)

\* the scan returned; one contractor's deep analysis had raised and its
\* contract has an alert from the fast flags, next to an alert of another
\* contractor with deep indicators
C7_Witness ==
    /\ pc = "returned"
    /\ \E i, j \in DOMAIN task :
          /\ contracts[i].recipient_uei \in deep_failed
          /\ ~results[i].is_none
          /\ results[i] \in Range(alerts)
          /\ ~results[j].is_none
          /\ results[j].indicator_details # <<>>
          /\ results[j] \in Range(alerts)

\* C8: when a page request of the initial fetch fails, scan does not return
\* normally: the failure reaches the caller.
C8_FeedFailureSurfaces ==
    feed_failed => pc # "returned"

(***************************************************************************)
(* Properties of the aggregator.                                           *)
(***************************************************************************)
Analyzed == agg_profile # NoProfile

SameKey(a, b) == a.category = b.category /\ a.pattern_type = b.pattern_type

\* the positions of the collected list that hold the first indicator of
\* their (category, pattern type)
FirstPositions(raw) ==
    {k \in DOMAIN raw : \A j \in 1..(k - 1) : ~SameKey(raw[j], raw[k])}

\* the n-th smallest element of a set of positions
NthOf(P, n) == CHOOSE q \in P : Cardinality({r \in P : r < q}) = n - 1

ScoreAt(inds) == [k \in DOMAIN inds |-> inds[k].score]

\* C9: total_score = min(100, sum of the scores of the indicators of the
\* profile, which are those that survive deduplication).
C9_TotalIsCappedSum ==
    Analyzed =>
        agg_profile.total_score =
            Capped(SumOver(DOMAIN agg_profile.indicators, ScoreAt(agg_profile.indicators)))

\* a profile whose surviving indicators sum to more than 100
C9_Witness ==
    /\ Analyzed
    /\ SumOver(DOMAIN agg_profile.indicators, ScoreAt(agg_profile.indicators)) > 100
    /\ agg_profile.total_score = 100

HasSeverity(inds, s) == \E k \in DOMAIN inds : inds[k].severity = s

\* the tier the ordered rules give to a total t and a set of severities
TierByRules(t, critical, high) ==
    CASE critical \/ t >= 50 -> "CRITICAL"
      [] ~(critical \/ t >= 50) /\ (t >= 35 \/ (high /\ t >= 25)) -> "HIGH"
      [] ~(critical \/ t >= 50) /\ ~(t >= 35 \/ (high /\ t >= 25)) /\ t >= 20 -> "MEDIUM"
      [] ~critical /\ t < 20 /\ t > 0 -> "LOW"
      [] OTHER -> "NONE"

\* C11: the tier of a profile with total_score t is CRITICAL if an indicator
\* is CRITICAL or t >= 50; else HIGH if t >= 35, or an indicator is HIGH and
\* t >= 25; else MEDIUM if t >= 20; else LOW if t > 0; else NONE.  So 19 is
\* LOW, 20 MEDIUM, 34 without a HIGH indicator MEDIUM, 35 HIGH, 49 without a
\* CRITICAL indicator HIGH, 50 CRITICAL.
C11_ProfileTierFollowsOrder ==
    Analyzed =>
        LET t == agg_profile.total_score
            critical == HasSeverity(agg_profile.indicators, "CRITICAL")
            high == HasSeverity(agg_profile.indicators, "HIGH")
            tier == agg_profile.risk_level
        IN /\ tier = TierByRules(t, critical, high)
           /\ (t = 19 /\ ~critical) => tier = "LOW"
           /\ (t = 20 /\ ~critical) => tier = "MEDIUM"
           /\ (t = 34 /\ ~critical /\ ~high) => tier = "MEDIUM"
           /\ (t = 35 /\ ~critical) => tier = "HIGH"
           /\ (t = 49 /\ ~critical) => tier = "HIGH"
           /\ t = 50 => tier = "CRITICAL"

\* a total between 25 and 34 that is HIGH only because of a HIGH indicator
C11_Witness ==
    /\ Analyzed
    /\ agg_profile.total_score \in 25..34
    /\ HasSeverity(agg_profile.indicators, "HIGH")
    /\ ~HasSeverity(agg_profile.indicators, "CRITICAL")
    /\ agg_profile.risk_level = "HIGH"

\* the total_score analyze_contractor gives to the first n collected
\* indicators
TotalOfPrefix(n) == BuildProfile("U4", "Unknown", SubSeq(agg_raw, 1, n)).total_score

\* C12: with indicator scores in 0..30, the total_score of a collected list
\* is never lower than the total_score of any of its prefixes (appending
\* indicators never lowers it), and it never exceeds 100.
C12_TotalMonotoneAndBounded ==
    (Analyzed /\ \A k \in DOMAIN agg_raw : agg_raw[k].score \in 0..30) =>
        /\ \A n \in 0..Len(agg_raw) : TotalOfPrefix(n) <= agg_profile.total_score
        /\ \A n \in 1..Len(agg_raw) : TotalOfPrefix(n - 1) <= TotalOfPrefix(n)
        /\ agg_profile.total_score <= 100

\* the list grew by an indicator that raised the total and by a repeated
\* pair with a lower score that left it where it was
C12_Witness ==
    /\ Analyzed
    /\ \E n \in 1..Len(agg_raw) : TotalOfPrefix(n - 1) < TotalOfPrefix(n)
    /\ \E n \in 2..Len(agg_raw) :
          /\ TotalOfPrefix(n - 1) = TotalOfPrefix(n)
          /\ TotalOfPrefix(n) < 100
          /\ \E j \in 1..(n - 1) :
                SameKey(agg_raw[j], agg_raw[n]) /\ agg_raw[n].score < agg_raw[j].score
    /\ agg_profile.total_score = TotalOfPrefix(Len(agg_raw))

\* C14: category_scores[c] is the sum of the scores of the indicators of the
\* profile (the deduplicated ones) of category c, its keys are exactly the
\* categories of those indicators, and total_score is the sum of all
\* category_scores values capped at 100.
C14_CategoryScoresPartitionTotal ==
    Analyzed =>
        LET inds == agg_profile.indicators
            cs == agg_profile.category_scores
        IN /\ DOMAIN cs = {inds[k].category : k \in DOMAIN inds}
           /\ \A c \in DOMAIN cs :
                 cs[c] = SumOver({k \in DOMAIN inds : inds[k].category = c}, ScoreAt(inds))
           /\ agg_profile.total_score = Capped(SumOver(DOMAIN cs, cs))

\* two categories, one of them with two surviving indicators of different
\* scores, and an indicator dropped by the deduplication
C14_Witness ==
    /\ Analyzed
    /\ Cardinality(DOMAIN agg_profile.category_scores) = 2
    /\ Len(agg_profile.indicators) < Len(agg_raw)
    /\ \E j, k \in DOMAIN agg_profile.indicators :
          /\ j # k
          /\ agg_profile.indicators[j].category = agg_profile.indicators[k].category
          /\ agg_profile.indicators[j].score # agg_profile.indicators[k].score
          /\ agg_profile.category_scores[agg_profile.indicators[j].category] =
                agg_profile.indicators[j].score + agg_profile.indicators[k].score

(***************************************************************************)
(* Properties of the profiles the scan caches.                             *)
(***************************************************************************)
ExactMatch == Ind("EXCLUSION", "EXCLUDED_ENTITY", "CRITICAL", 30)
NameMatch == Ind("EXCLUSION", "EXCLUDED_ENTITY_NAME_MATCH", "HIGH", 25)

Occurrences(inds, x) == Cardinality({k \in DOMAIN inds : inds[k] = x})

\* the identifiers with a cached profile
Profiled == {u \in DOMAIN contractor_cache : ~contractor_cache[u].is_none}

\* C13: a profile holds the CRITICAL EXCLUDED_ENTITY indicator (score 30)
\* exactly when the identifier has an exact exclusion match, and the HIGH
\* EXCLUDED_ENTITY_NAME_MATCH indicator (score 25) exactly when the legal name
\* matches an exclusion record and the identifier does not; the two have
\* different deduplication keys, each occurs at most once, and the exclusion
\* indicators precede every other indicator of the profile.
C13_ExclusionIndicatorsLeadProfile ==
    \A u \in Profiled :
        LET p == contractor_cache[u].risk_profile
            inds == p.indicators
        IN /\ Occurrences(inds, ExactMatch) = (IF u \in ExcludedUeis THEN 1 ELSE 0)
           /\ Occurrences(inds, NameMatch) =
                 (IF p.legal_name \in ExcludedNames /\ u \notin ExcludedUeis THEN 1 ELSE 0)
           /\ <<ExactMatch.category, ExactMatch.pattern_type>> #
                 <<NameMatch.category, NameMatch.pattern_type>>
           /\ \A k \in DOMAIN inds :
                 inds[k].category = "EXCLUSION" => inds[k] \in {ExactMatch, NameMatch}
           /\ \A j, k \in DOMAIN inds :
                 (j < k /\ inds[k].category = "EXCLUSION") => inds[j].category = "EXCLUSION"

\* one scan cached a profile led by the exact match (of a contractor whose
\* name matches too), one led by the name match, and one without either,
\* the first two followed by other indicators
C13_Witness ==
    \E u, v, w \in Profiled :
        LET iu == contractor_cache[u].risk_profile.indicators
            iv == contractor_cache[v].risk_profile.indicators
            iw == contractor_cache[w].risk_profile.indicators
        IN /\ u \in ExcludedUeis
           /\ contractor_cache[u].risk_profile.legal_name \in ExcludedNames
           /\ Len(iu) > 1 /\ iu[1] = ExactMatch /\ iu[2].category # "EXCLUSION"
           /\ v \notin ExcludedUeis
           /\ Len(iv) > 1 /\ iv[1] = NameMatch /\ iv[2].category # "EXCLUSION"
           /\ \A k \in DOMAIN iw : iw[k].category # "EXCLUSION"

(***************************************************************************)
(* Properties of the address index.                                        *)
(***************************************************************************)
\* the identifiers of the batch the index was built from
BatchUeis == {contracts[i].recipient_uei : i \in DOMAIN contracts} \ {NoUei}

\* the address key check_shared_address looks an identifier up under
HasKey(u) ==
    /\ u \in DOMAIN entity_cache
    /\ entity_cache[u].present
    /\ entity_cache[u].address # <<>>
KeyOf(u) == AddrKey(entity_cache[u].address)

\* b is one of the identifiers check_shared_address(a) counts
Counted(a, b) ==
    /\ HasKey(a)
    /\ KeyOf(a) \in DOMAIN address_index
    /\ b \in DOMAIN address_index[KeyOf(a)]
    /\ b # a

\* C16: once the index is built for a batch, for distinct identifiers A and
\* B of the batch B is counted in check_shared_address(A) exactly when A is
\* counted in check_shared_address(B); no identifier counts itself; and the
\* identifiers indexed under one key all get the size of the cluster minus
\* one, whatever the order of the lookups.
C16_SharedCountsSymmetric ==
    address_index_built =>
        /\ \A a, b \in BatchUeis : a # b => (Counted(a, b) <=> Counted(b, a))
        /\ \A a \in BatchUeis \cap DOMAIN shared_address_cache :
              /\ shared_address_cache[a] =
                    Cardinality({b \in BatchUeis : Counted(a, b)})
              /\ HasKey(a) =>
                    shared_address_cache[a] = BagSize(address_index[KeyOf(a)]) - 1
        /\ \A a, b \in BatchUeis \cap DOMAIN shared_address_cache :
              (HasKey(a) /\ HasKey(b) /\ KeyOf(a) = KeyOf(b)) =>
                  shared_address_cache[a] = shared_address_cache[b]

\* a cluster of three identifiers of the batch, all looked up, each with a
\* count of two
C16_Witness ==
    /\ address_index_built
    /\ \E a, b, c \in BatchUeis \cap DOMAIN shared_address_cache :
          /\ Cardinality({a, b, c}) = 3
          /\ Counted(a, b) /\ Counted(b, c) /\ Counted(c, a)
          /\ shared_address_cache[a] = 2
          /\ shared_address_cache[b] = 2
          /\ shared_address_cache[c] = 2

\* the identifiers other than u listed under the key of u
OthersUnderKey(u) ==
    IF HasKey(u) /\ KeyOf(u) \in DOMAIN address_index
    THEN DOMAIN address_index[KeyOf(u)] \ {u}
    ELSE {}

\* every memoized count is the number of other identifiers under the key,
\* 0 without a record or an address; the index lists only identifiers with
\* a record and an address, under the key of that address; and the last
\* lookup returned the memoized count
CountsMatchIndex ==
    /\ \A u \in DOMAIN shared_address_cache :
          /\ shared_address_cache[u] = Cardinality(OthersUnderKey(u))
          /\ ~HasKey(u) => shared_address_cache[u] = 0
    /\ \A k \in DOMAIN address_index : \A u \in DOMAIN address_index[k] :
          HasKey(u) /\ KeyOf(u) = k
    /\ idx_call.op = "lookup" =>
          idx_call.count = shared_address_cache[idx_call.uei]

\* a memoized count stays, and a lookup that finds it returns it and leaves
\* both caches and the index as they are
MemoKept ==
    /\ \A u \in DOMAIN shared_address_cache :
          /\ u \in DOMAIN shared_address_cache'
          /\ shared_address_cache'[u] = shared_address_cache[u]
    /\ (idx_call'.op = "lookup" /\ idx_call'.hit) =>
          /\ idx_call'.uei \in DOMAIN shared_address_cache
          /\ idx_call'.count = shared_address_cache[idx_call'.uei]
          /\ UNCHANGED <<entity_cache, shared_address_cache, address_index>>

\* C17: check_shared_address(id) returns the number of identifiers other than
\* id indexed under the address key of id; it returns 0 when the entity is
\* not resolved or its address is empty, and such identifiers are never in
\* the index; the result is memoized per identifier: a repeated call returns
\* the same value and changes neither the caches nor the index.
C17_SharedCountMemoized == [](CountsMatchIndex) /\ [][MemoKept]_vars

\* a repeated lookup returned the memoized count 1, next to the memoized
\* zeros of a batch identifier without a record and of one with an empty
\* address
C17_Witness ==
    /\ idx_call.op = "lookup"
    /\ idx_call.hit
    /\ idx_call.count = 1
    /\ \E u, v \in DOMAIN shared_address_cache :
          /\ ~entity_cache[u].present
          /\ entity_cache[v].present /\ entity_cache[v].address = <<>>
          /\ shared_address_cache[u] = 0 /\ shared_address_cache[v] = 0
          /\ {u, v} \subseteq BatchUeis

\* once the index is built no step changes it or clears the flag
IndexFrozen ==
    address_index_built =>
        /\ address_index' = address_index
        /\ address_index_built'

\* C18: _build_address_index is idempotent: once it has completed, calling
\* it again leaves the index and the built flag as they are, and no
\* identifier is ever listed twice under an address key.
C18_BuildIdempotent ==
    /\ [][IndexFrozen]_vars
    /\ [](\A k \in DOMAIN address_index : \A u \in DOMAIN address_index[k] :
             address_index[k][u] = 1)

\* the build was called again, with a batch holding identifiers twice, on an
\* index that lists two identifiers under one key
C18_Witness ==
    /\ idx_call.op = "build"
    /\ idx_call.was_built
    /\ \E i, j \in DOMAIN contracts :
          i # j /\ contracts[i].recipient_uei = contracts[j].recipient_uei
    /\ \E k \in DOMAIN address_index : Cardinality(DOMAIN address_index[k]) = 2

(***************************************************************************)
(* Properties of the index within scan.                                    *)
(***************************************************************************)
\* the batch identifiers that have a record with an address
Addressed(batch) ==
    {u \in {batch[i].recipient_uei : i \in DOMAIN batch} \ {NoUei} :
        EntityIndex(u).present /\ EntityIndex(u).address # <<>>}

\* the index of a batch: each addressed identifier once under its key
IndexOf(batch) ==
    [k \in {AddrKey(EntityIndex(u).address) : u \in Addressed(batch)} |->
        [u \in {v \in Addressed(batch) : AddrKey(EntityIndex(v).address) = k} |-> 1]]

\* while the tasks exist the build has completed, and on a new scanner the
\* index holds every addressed identifier of the batch
BuiltBeforeTasks ==
    (pc = "analyzing" \/ task # <<>>) =>
        /\ address_index_built
        /\ earlier_scans = 0 => address_index = IndexOf(contracts)

\* no step from the creation of the tasks to the return changes the index
FrozenWhileAnalyzing ==
    pc = "analyzing" => address_index' = address_index

\* C19: during a scan the address index is completely built before the first
\* analysis task starts, and from then until scan returns no operation adds,
\* removes or changes an index entry.
C19_IndexBuiltThenFrozen == [](BuiltBeforeTasks) /\ [][FrozenWhileAnalyzing]_vars

\* a scan returned after its tasks looked up identifiers of an index that
\* lists two identifiers under one key
C19_Witness ==
    /\ pc = "returned"
    /\ task # <<>>
    /\ \A i \in DOMAIN task : task[i] = "done"
    /\ \E k \in DOMAIN address_index : Cardinality(DOMAIN address_index[k]) = 2
    /\ \E u \in DOMAIN shared_address_cache : shared_address_cache[u] = 1

(***************************************************************************)
(* Properties of repeated scans.                                           *)
(***************************************************************************)
\* the alert list scan(batch, threshold th) returns on a new scanner
FreshAlerts(batch, deep, th) ==
    IF batch = <<>> THEN <<>>
    ELSE SortAlerts(FilterAlerts(
             RunInRequestOrder(FreshTasks(batch, deep), batch, deep,
                               BuildAddressIndex(batch, EmptyMap, EmptyMap, FALSE).index
                              ).results,
             LevelIndex(th)))

\* C15: in fast mode two scans over the same batch, with the same entity and
\* exclusion data and the same clock, return the same alert list, on two new
\* scanners as well as one after the other on one scanner: the first scan of
\* a scanner and a later scan over the batch of the scan before it both
\* return the list a new scanner returns for the batch.
C15_FastScanRepeatable ==
    (pc = "returned" /\ ~deep_analysis /\ (earlier_scans = 0 \/ same_batch)) =>
        alerts = FreshAlerts(contracts, FALSE, threshold)

\* the second scan of a scanner returned alerts for the batch of its first
\* scan, among them one with a shared address count from the memo
C15_Witness ==
    /\ pc = "returned"
    /\ ~deep_analysis
    /\ earlier_scans = 1
    /\ same_batch
    /\ Len(alerts) > 1
    /\ \E i \in DOMAIN alerts : alerts[i].shared_address_count = 1

\* C20: the state derived during a scan is scoped to that scan: the alerts
\* of a scan depend only on its batch and the external data, not on earlier
\* scans of the same scanner (checked in fast mode, where a new scanner has
\* one alert list per batch and threshold).
C20_AlertsIndependentOfEarlierScans ==
    (pc = "returned" /\ ~deep_analysis) =>
        alerts = FreshAlerts(contracts, FALSE, threshold)


\* task i analyzes a contract without contractor identifier
NoIdentifier(i) ==
    /\ i \in DOMAIN task
    /\ i \in DOMAIN contracts
    /\ contracts[i].recipient_uei = NoUei

\* the identifiers some cache or the address index knows
KnownUeis ==
    DOMAIN entity_cache \cup DOMAIN shared_address_cache
        \cup DOMAIN contractor_cache
        \cup UNION {DOMAIN address_index[k] : k \in DOMAIN address_index}

\* task i returns in this step
Returns(i) ==
    /\ i \in DOMAIN task
    /\ i \in DOMAIN task'
    /\ pc = "analyzing"
    /\ task[i] # "done"
    /\ task'[i] = "done"

\* C21: a contract with an empty or absent contractor identifier never
\* produces an alert and gets no signal: analyze_contract returns no alert
\* with every local still at its initial value, its step runs no exclusion
\* check, entity lookup, cache insertion, history request or deep analysis,
\* and neither the caches nor the address index ever hold the empty
\* identifier.
C21_NoIdentifierNoAlert ==
    /\ [](/\ \A i \in DOMAIN task :
                NoIdentifier(i) /\ Done(i) =>
                    /\ results[i] = NoAlert
                    /\ local[i] = [NoLocal EXCEPT !.started = TRUE]
          /\ NoUei \notin KnownUeis
          /\ \A k \in DOMAIN alerts : alerts[k].recipient_uei # NoUei)
    /\ [][\A i \in DOMAIN task :
              NoIdentifier(i) /\ Returns(i) =>
                  UNCHANGED <<cacheVars, history_calls, analyze_calls,
                              deep_failed, semaphore>>]_vars

\* a finished deep scan whose batch holds a contract without identifier next
\* to a contract that raised an alert
C21_Witness ==
    /\ pc = "returned"
    /\ deep_analysis
    /\ \E i, j \in DOMAIN task :
          /\ NoIdentifier(i) /\ Done(i)
          /\ Alerted(j)
          /\ contracts[j].recipient_uei \in DOMAIN contractor_cache


\* the pattern types of a flag list
FlagPatterns(flags) == {flags[k].pattern : k \in DOMAIN flags}

RECURSIVE MergeByFlagList(_, _)
\* the merge as a rule on the flag list alone: an indicator is appended
\* exactly when no flag of the list so far has its pattern type
MergeByFlagList(inds, flags) ==
    IF inds = <<>> THEN flags
    ELSE LET i == Head(inds)
         IN IF i.pattern_type \in FlagPatterns(flags)
            THEN MergeByFlagList(Tail(inds), flags)
            ELSE MergeByFlagList(Tail(inds),
                                 Append(flags, Flag(i.severity, i.pattern_type)))

\* task i has run the deep-mode merge of a contract with identifier
DeepMerged(i) ==
    /\ deep_analysis
    /\ Done(i)
    /\ i \in DOMAIN contracts
    /\ contracts[i].recipient_uei \in DOMAIN contractor_cache

NoRecord(u) == ~EntityIndex(u).present

\* an indicator that analyze_contractor derives from the entity record
FromEntityRecord(ind) ==
    \/ ind.pattern_type = "EXCLUDED_ENTITY_NAME_MATCH"
    \/ ind.category \in {"ENTITY", "SHELL_COMPANY"}

\* C23: for an identifier without directory record the fast path emits no
\* registration-age, virtual-office or shared-address flag, the deep
\* analysis does not fail, and the profile analyze_contractor returns holds
\* no indicator derived from the entity record: no name-based exclusion
\* match and no registration, address, employee or network indicator.
C23_MissingRecordOmitsChecks ==
    /\ \A i \in DOMAIN task :
          (Done(i) /\ ~NoIdentifier(i) /\ NoRecord(contracts[i].recipient_uei)) =>
              /\ local[i].registration_age_days = NoneAge
              /\ ~local[i].virtual_office
              /\ local[i].shared_address_count = 0
              /\ \A k \in DOMAIN local[i].fast_flags :
                    local[i].fast_flags[k].pattern = "EXCLUDED_ACTIVE_CONTRACT"
    /\ \A u \in DOMAIN contractor_cache :
          NoRecord(u) =>
              /\ ~contractor_cache[u].is_none
              /\ u \notin deep_failed
              /\ \A k \in DOMAIN contractor_cache[u].risk_profile.indicators :
                    ~FromEntityRecord(contractor_cache[u].risk_profile.indicators[k])


\* C24: the address index keys every address by its normalized form (case
\* folded, punctuation stripped, whitespace runs collapsed and trimmed): two
\* contractors of the batch whose addresses have the same normalized form
\* are indexed under the same key and each is counted in the shared-address
\* count of the other.
C24_IndexKeyIsNormalizedAddress ==
    address_index_built =>
        \A a, b \in BatchUeis :
            (a # b /\ HasKey(a) /\ HasKey(b)
               /\ NormalizeAddress(entity_cache[a].address) =
                      NormalizeAddress(entity_cache[b].address)) =>
                /\ KeyOf(a) = KeyOf(b)
                /\ Counted(a, b)
                /\ Counted(b, a)


(***************************************************************************)
(* Properties of the pure detectors.                                       *)
(***************************************************************************)
\* the splitting check has run on the list det_in
SplitJudged == det_out # NoCall /\ det_out.op = "splitting"

\* the contracts of det_in that the contractor has with the agency at 85% to
\* under 99.9% of the threshold, all award dates or those of the window
NearThreshold(agency, t, windowed) ==
    {j \in DOMAIN det_in :
        LET c == det_in[j].c
        IN /\ c.recipient_uei = det_out.uei
           /\ c.agency = agency
           /\ c.start_date # BadDate
           /\ 20 * c.total_obligation >= 17 * t
           /\ 1000 * c.total_obligation < 999 * t
           /\ windowed => Now - c.start_date < 180}

\* the mean gap between consecutive award dates of the contracts K is below
\* 45 days: the gaps add up to the span from the first to the last date
MeanGapBelow45(K) ==
    LET D == {det_in[j].c.start_date : j \in K}
        first == CHOOSE d \in D : \A e \in D : d <= e
        last == CHOOSE d \in D : \A e \in D : e <= d
    IN last - first < 45 * (Cardinality(K) - 1)

\* the indicators reported for the agency and the threshold
SplittingFound(agency, t) ==
    IF agency \in DOMAIN det_out.found
    THEN {k \in DOMAIN det_out.found[agency] :
             det_out.found[agency][k].threshold_value = t}
    ELSE {}

SplitAgencies == {"A", "B"}

SplittingRule(windowed) ==
    SplitJudged =>
        \A agency \in SplitAgencies : \A t \in Range(THRESHOLDS) :
            LET K == NearThreshold(agency, t, windowed)
                F == SplittingFound(agency, t)
            IN /\ Cardinality(F) =
                    (IF Cardinality(K) >= 3 /\ MeanGapBelow45(K) THEN 1 ELSE 0)
               /\ \A k \in F :
                     LET ind == det_out.found[agency][k]
                     IN /\ ind.pattern_type = "CONTRACT_SPLITTING"
                        /\ ind.severity = "HIGH"
                        /\ ind.score = 20
                        /\ ind.contract_count = Cardinality(K)

\* C25 as stated: CONTRACT_SPLITTING (HIGH, score 20) is emitted for a
\* threshold exactly when at least 3 of the contractor's contracts with the
\* agency have values in [85%, 99.9%) of the threshold and the mean gap
\* between their consecutive award dates is below 45 days, whenever the
\* contracts were awarded.
C25_SplittingAnyAwardDate == SplittingRule(FALSE)

\* C25, amended: CONTRACT_SPLITTING (HIGH, score 20) is emitted for a
\* threshold exactly when at least 3 of the contractor's contracts with the
\* agency that were awarded within the last 180 days have values in
\* [85%, 99.9%) of the threshold and the mean gap between their consecutive
\* award dates is below 45 days.
C25_SplittingWithinLookback == SplittingRule(TRUE)

\* the contracts of 235000, 240000 and 245000 awarded to one agency 40, 20
\* and 0 days ago, reported for the 250000 threshold
C25_Witness ==
    /\ SplitJudged
    /\ det_out.uei = "X"
    /\ \A v \in {235000, 240000, 245000} :
          \E j \in DOMAIN det_in :
              det_in[j].c = Award("X", "A", Now - ((245000 - v) \div 250), v)
    /\ Len(det_in) = 3
    /\ SplittingFound("A", 250000) # {}


\* the Benford check has run on the amounts det_in
BenJudged == det_out # NoCall /\ det_out.op = "benford"

\* the statistic of the positive amounts of det_in exceeds 15.51
ChiSquareExceeds ==
    ChiSquareLoop([a \in {x \in DOMAIN det_in : x > 0} |-> det_in[a]],
                  PositiveAmounts, 1) > 15510 * PositiveAmounts

\* C26: the Benford check yields no finding for fewer than 30 positive
\* amounts, and for 30 positive amounts or more it is evaluated: it emits
\* BENFORDS_LAW_VIOLATION exactly when the chi-square statistic of the first
\* digits exceeds 15.51.
C26_BenfordEvaluatedFromThirty ==
    BenJudged =>
        /\ PositiveAmounts < 30 => det_out.found.is_none
        /\ PositiveAmounts >= 30 => (~det_out.found.is_none <=> ChiSquareExceeds)


\* the modification check has run on the contracts det_in
ModJudged == det_out # NoCall /\ det_out.op = "modifications"

\* the original value of a contract: base_exercised_options_value where the
\* object has a nonzero one, the Contract field base_and_all_options
\* otherwise
OriginalOf(c) ==
    IF c.has_base_exercised /\ c.base_exercised_options_value # 0
    THEN c.base_exercised_options_value
    ELSE c.base_and_all_options

\* the growth indicators reported for the contract at position j
GrowthFound(j) == {k \in DOMAIN det_out.found : det_out.found[k].contract_id = j}

\* C27: for a contract with original value o > 0 and current value c the
\* modification-growth check emits one HIGH indicator of score 20 when
\* c - o > o (growth over 100%), one MEDIUM indicator of score 10 when
\* o / 2 < c - o <= o (growth over 50%, at most 100%), and none when
\* c - o <= o / 2.
C27_GrowthTiers ==
    ModJudged =>
        \A j \in DOMAIN det_in :
            LET o == OriginalOf(det_in[j].c)
                c == det_in[j].c.total_obligation
                tier == IF c - o > o THEN <<"HIGH", 20>>
                        ELSE IF 2 * (c - o) > o THEN <<"MEDIUM", 10>>
                        ELSE <<"NONE", 0>>
            IN o > 0 =>
                  IF tier[1] = "NONE" THEN GrowthFound(j) = {}
                  ELSE /\ Cardinality(GrowthFound(j)) = 1
                       /\ \A k \in GrowthFound(j) :
                             /\ det_out.found[k].severity = tier[1]
                             /\ det_out.found[k].score = tier[2]


\* C28: fetch_contracts returns at most `limit` contracts, and it requests
\* no page beyond the first ceil(limit / page size) pages, whatever pages
\* the feed answers with: the page it is about to request lies within that
\* number.
C28_FetchWithinPageBudget ==
    /\ pc = "fetching" => (page - 1) * PageSize < limit
    /\ pc \in {"analyzing", "returned"} => Len(contracts) <= limit


\* the contractor of task i has an exact-identifier exclusion match
ExcludedContractor(i) ==
    /\ i \in DOMAIN contracts
    /\ contracts[i].recipient_uei \in ExcludedUeis

\* C29: every contract whose contractor has an exact-identifier exclusion
\* match yields an alert with exclusion_match true, tier CRITICAL and a
\* score of at least 25, in fast and in deep mode and also when the deep
\* analysis of the contractor failed; the list scan returns holds that
\* alert for every minimum tier.
C29_ExcludedAlwaysCritical ==
    /\ \A i \in DOMAIN task :
          Done(i) /\ ExcludedContractor(i) =>
              /\ Alerted(i)
              /\ results[i].exclusion_match
              /\ results[i].risk_level = "CRITICAL"
              /\ results[i].risk_score >= 25
    /\ pc = "returned" =>
          \A i \in DOMAIN task :
              ExcludedContractor(i) =>
                  \E k \in DOMAIN alerts : alerts[k] = results[i]

\* a deep scan with minimum tier CRITICAL has returned the alert of an
\* excluded contractor whose deep analysis failed
C29_Witness ==
    /\ pc = "returned"
    /\ deep_analysis
    /\ threshold = "CRITICAL"
    /\ \E i \in DOMAIN task :
          /\ ExcludedContractor(i)
          /\ contracts[i].recipient_uei \in deep_failed
          /\ \E k \in DOMAIN alerts : alerts[k] = results[i]

\* task i takes its first step past the semaphore in this step
Enters(i) ==
    /\ i \in DOMAIN task
    /\ i \in DOMAIN task'
    /\ pc = "analyzing"
    /\ task[i] \in {"ready", "blocked"}
    /\ task'[i] \in {"awaiting", "done"}

\* the failure of the deep analysis of task i's contractor is in the cache
FailureRecorded(i) ==
    /\ deep_analysis
    /\ ~NoIdentifier(i)
    /\ contracts[i].recipient_uei \in DOMAIN contractor_cache
    /\ contractor_cache[contracts[i].recipient_uei].is_none

\* C30: in deep mode a failed deep analysis is recorded under the
\* identifier in the contractor cache, and a contract of that contractor
\* analyzed afterwards in the same scan starts neither the history request
\* nor the analysis again: it returns in one step with the fast-check flags
\* only, empty category scores and no indicator details.
C30_FailureCachedNotRetried ==
    /\ [](\A u \in deep_failed :
              u \in DOMAIN contractor_cache /\ contractor_cache[u].is_none)
    /\ [][\A i \in DOMAIN task :
              Enters(i) /\ FailureRecorded(i) =>
                  /\ task'[i] = "done"
                  /\ UNCHANGED <<history_calls, analyze_calls, contractor_cache,
                                 deep_failed>>
                  /\ local'[i].flags = local'[i].fast_flags
                  /\ ~results'[i].is_none =>
                        /\ results'[i].flags = local'[i].fast_flags
                        /\ results'[i].indicator_details = <<>>
                        /\ results'[i].category_scores = EmptyMap]_vars

\* two contracts of a contractor whose deep analysis failed: the analysis ran
\* once, and the contract analyzed after the failure got its alert from the
\* recorded failure
C30_Witness ==
    \E i, j \in DOMAIN task :
        /\ i # j
        /\ Done(i) /\ Done(j)
        /\ contracts[i].recipient_uei = contracts[j].recipient_uei
        /\ contracts[i].recipient_uei \in deep_failed
        /\ analyze_calls[contracts[i].recipient_uei] = 1
        /\ local[j].from_cache
        /\ Alerted(j)
        /\ results[j].indicator_details = <<>>

====
